---------------------------- MODULE Spec2Model ----------------------------
(***************************************************************************)
(* A model of the 5D chess engine core: the per-piece move generator       *)
(* (src/lib/prelude/gen/piece.rs), the moveset constructor and the FEN     *)
(* insertion of the PGN parser (src/lib/parse.rs).                         *)
(*                                                                         *)
(* Coordinates are Coords(l, t, x, y), modelled as the tuple <<l,t,x,y>>.  *)
(* A Tile is Void, Blank or a Piece {kind, white, moved}.                  *)
(***************************************************************************)
EXTENDS Integers, Sequences, FiniteSets, TLC

VARIABLES
    game,          \* Game: width, height, info (timeline registry), boards
    partial_game,  \* PartialGame: the overlay boards (new_boards) over game
    piece,         \* PiecePosition(Piece, Coords) whose moves are generated
    iter,          \* Option<PieceMoveIter>: the iterator generate_moves returned
    yielded,       \* the items next() has returned so far, in order
    last,          \* what the last call of next() returned (None or a move)
    validated,     \* the last validate_move call: its argument and its result
    fens,          \* parse_pgn: the [fen:L:T:c] entries still to be inserted
    moveset,       \* Moveset::new: its argument and its result
    pc,            \* which operation the run is in
    game_raw,      \* parse: the deserialized JSON (GameRaw) still to be turned into a Game
    filter,        \* TimedFilter or SigmaFilter: its fields, with the iterator's remaining items
    clock,         \* Instant::now()
    calls,         \* the calls of next() on the filter so far, each with what it did
    arg,           \* the argument of a function called on its own (decoders, tables)
    ret            \* what that function returned

vars == <<game, partial_game, piece, iter, yielded, last, validated, fens, moveset, pc,
          game_raw, filter, clock, calls, arg, ret>>
\* the variables of the JSON parser and of the timed filters
parseVars == <<game_raw>>
timeVars == <<filter, clock, calls>>
\* the variables of a function called on its own
fnVars == <<arg, ret>>

\* Option: None, or Some(v)
None == [tag |-> "None"]
Some(v) == [tag |-> "Some", val |-> v]

(***************************************************************************)
(* Bounds of the checked instances.                                        *)
(***************************************************************************)
\* layers 0..MaxL exist in the generated multiverses
MaxL == 2
\* times 0..MaxT
MaxT == 1
\* the boards of the generated multiverses are Dim x Dim
Dim == 3

Layers == 0..MaxL
Times == 0..MaxT

(***************************************************************************)
(* Coords, Tile, Piece                                                     *)
(***************************************************************************)
Coords(l, t, x, y) == <<l, t, x, y>>
CoordsAdd(a, b) == <<a[1] + b[1], a[2] + b[2], a[3] + b[3], a[4] + b[4]>>
CoordsSub(a, b) == <<a[1] - b[1], a[2] - b[2], a[3] - b[3], a[4] - b[4]>>
CoordsMul(a, k) == <<a[1] * k, a[2] * k, a[3] * k, a[4] * k>>
physical(c) == <<c[3], c[4]>>
non_physical(c) == <<c[1], c[2]>>

PieceKinds ==
    {"Pawn", "Knight", "Bishop", "Rook", "Queen", "King", "Unicorn", "Dragon",
     "Princess", "Brawn", "CommonKing", "RoyalQueen"}

Void == [tag |-> "Void"]
Blank == [tag |-> "Blank"]
PieceNew(kind, white, moved) ==
    [tag |-> "Piece", kind |-> kind, white |-> white, moved |-> moved]

is_blank(tile) == tile.tag = "Blank"
is_void(tile) == tile.tag = "Void"
is_piece(tile) == tile.tag = "Piece"
is_piece_of_color(tile, white) == tile.tag = "Piece" /\ tile.white = white
can_enpassant(p) == p.kind \in {"Pawn", "Brawn"}

(***************************************************************************)
(* Board, Game, PartialGame lookups                                        *)
(***************************************************************************)
\* Board::new: pieces is row-major, y major
BoardNew(w, h, l, t, pieces, en_passant) ==
    [l |-> l, t |-> t, width |-> w, height |-> h, pieces |-> pieces,
     en_passant |-> en_passant]

\* Board::get: out-of-range access returns Void
BoardGet(board, x, y) ==
    IF x < 0 \/ x >= board.width \/ y < 0 \/ y >= board.height
    THEN Void
    ELSE board.pieces[y * board.width + x + 1]

\* PartialGame::get_board_with_game: the overlay first, then the base game
get_board_with_game(g, pg, lt) ==
    IF lt \in DOMAIN pg.new_boards THEN pg.new_boards[lt]
    ELSE IF lt \in DOMAIN g.boards THEN g.boards[lt]
    ELSE None

\* PartialGame::get_with_game: the tile at coords, Void where no board is
get_with_game(g, pg, c) ==
    LET b == get_board_with_game(g, pg, non_physical(c))
    IN  IF b = None THEN Void ELSE BoardGet(b, c[3], c[4])

\* Move::new
MoveNew(g, pg, from, to) == [from |-> from, to |-> to]


(***************************************************************************)
(* PERMUTATIONS: each generator tuple multiplied out over every sign       *)
(* combination of its non-zero axes.                                       *)
(***************************************************************************)
KnightGroup ==
    << <<2, 1, 0, 0>>, <<1, 2, 0, 0>>, <<0, 2, 1, 0>>, <<0, 1, 2, 0>>,
       <<0, 0, 2, 1>>, <<0, 0, 1, 2>>, <<1, 0, 0, 2>>, <<2, 0, 0, 1>>,
       <<2, 0, 1, 0>>, <<1, 0, 2, 0>>, <<0, 2, 0, 1>>, <<0, 1, 0, 2>> >>
RookGroup == << <<1, 0, 0, 0>>, <<0, 1, 0, 0>>, <<0, 0, 1, 0>>, <<0, 0, 0, 1>> >>
BishopGroup ==
    << <<1, 1, 0, 0>>, <<0, 1, 1, 0>>, <<0, 0, 1, 1>>, <<1, 0, 0, 1>>,
       <<1, 0, 1, 0>>, <<0, 1, 0, 1>> >>
UnicornGroup == << <<0, 1, 1, 1>>, <<1, 0, 1, 1>>, <<1, 1, 0, 1>>, <<1, 1, 1, 0>> >>
DragonGroup == << <<1, 1, 1, 1>> >>

\* the (group, cardinality) pairs the table is built from
PermutationGroups ==
    << [group |-> KnightGroup, cardinality |-> 2],
       [group |-> RookGroup, cardinality |-> 1],
       [group |-> BishopGroup, cardinality |-> 2],
       [group |-> UnicornGroup, cardinality |-> 3],
       [group |-> DragonGroup, cardinality |-> 4] >>

RECURSIVE SignedFrom_SharedBit(_, _, _, _)
\* SignedFrom with o never advanced: every axis takes the sign of bit 0
SignedFrom_SharedBit(element, perm_index, k, o) ==
    IF k > Len(element) THEN <<>>
    ELSE IF element[k] # 0
         THEN <<IF (perm_index \div (2 ^ o)) % 2 = 1 THEN -element[k] ELSE element[k]>>
              \o SignedFrom_SharedBit(element, perm_index, k + 1, o)
         ELSE <<0>> \o SignedFrom_SharedBit(element, perm_index, k + 1, o)

RECURSIVE SignedFrom(_, _, _, _)
\* the inner loop over element.0 .. element.3: o counts the non-zero axes seen
SignedFrom(element, perm_index, k, o) ==
    IF k > Len(element) THEN <<>>
    ELSE IF element[k] # 0
         THEN <<IF (perm_index \div (2 ^ o)) % 2 = 1 THEN -element[k] ELSE element[k]>>
              \o SignedFrom(element, perm_index, k + 1, o + 1)
         ELSE <<0>> \o SignedFrom(element, perm_index, k + 1, o)

RECURSIVE SignsOf(_, _, _)
\* for perm_index in 0..2^cardinality
SignsOf(element, cardinality, perm_index) ==
    IF perm_index >= 2 ^ cardinality THEN <<>>
    ELSE <<SignedFrom(element, perm_index, 1, 0)>>
         \o SignsOf(element, cardinality, perm_index + 1)

RECURSIVE PermuteGroup(_, _, _)
\* for element in group
PermuteGroup(group, cardinality, e) ==
    IF e > Len(group) THEN <<>>
    ELSE SignsOf(group[e], cardinality, 0) \o PermuteGroup(group, cardinality, e + 1)

\* PERMUTATIONS[i] of the code is PERMUTATIONS[i + 1] here (sequences start at 1)
PERMUTATIONS ==
    [i \in 1..Len(PermutationGroups) |->
        PermuteGroup(PermutationGroups[i].group, PermutationGroups[i].cardinality, 1)]

(***************************************************************************)
(* PawnIter                                                                *)
(***************************************************************************)
forward(a, b, color) == IF color THEN CoordsAdd(a, b) ELSE CoordsSub(a, b)

\* PawnForwardPerms with the time axis in place of the timeline axis
PawnForwardPerms_AlongT == << Coords(0, 0, 0, 1), Coords(0, 1, 0, 0) >>

\* the perms of the "Forward move" loop
PawnForwardPerms == << Coords(0, 0, 0, 1), Coords(1, 0, 0, 0) >>

\* the perms of the "Captures" loop
BrawnCaptures ==
    << Coords(0, 0, 1, 1), Coords(0, 0, -1, 1), Coords(0, -1, 0, 1), Coords(1, 0, 0, 1),
       Coords(1, 1, 0, 0), Coords(1, -1, 0, 0), Coords(1, 0, 1, 0), Coords(1, 0, -1, 0) >>
PawnCaptures ==
    << Coords(0, 0, 1, 1), Coords(0, 0, -1, 1), Coords(1, 1, 0, 0), Coords(1, -1, 0, 0) >>

\* PawnForwardOf without the test of the moved flag
PawnForwardOf_IgnoresMoved(g, pg, pp, perm) ==
    IF is_blank(get_with_game(g, pg, forward(pp.coords, perm, pp.piece.white)))
    THEN <<MoveNew(g, pg, pp.coords, forward(pp.coords, perm, pp.piece.white))>>
         \o (IF is_blank(get_with_game(g, pg,
                   forward(pp.coords, CoordsMul(perm, 2), pp.piece.white)))
             THEN <<MoveNew(g, pg, pp.coords,
                       forward(pp.coords, CoordsMul(perm, 2), pp.piece.white))>>
             ELSE <<>>)
    ELSE <<>>

\* one turn of the "Forward move" loop: the single step, then the kickstart
PawnForwardOf(g, pg, pp, perm) ==
    IF is_blank(get_with_game(g, pg, forward(pp.coords, perm, pp.piece.white)))
    THEN <<MoveNew(g, pg, pp.coords, forward(pp.coords, perm, pp.piece.white))>>
         \o (IF ~pp.piece.moved
                /\ is_blank(get_with_game(g, pg,
                       forward(pp.coords, CoordsMul(perm, 2), pp.piece.white)))
             THEN <<MoveNew(g, pg, pp.coords,
                       forward(pp.coords, CoordsMul(perm, 2), pp.piece.white))>>
             ELSE <<>>)
    ELSE <<>>

RECURSIVE PawnForwardMoves(_, _, _, _)
PawnForwardMoves(g, pg, pp, i) ==
    IF i > Len(PawnForwardPerms) THEN <<>>
    ELSE PawnForwardOf(g, pg, pp, PawnForwardPerms[i]) \o PawnForwardMoves(g, pg, pp, i + 1)

RECURSIVE PawnCaptureMoves(_, _, _, _, _)
PawnCaptureMoves(g, pg, pp, perms, i) ==
    IF i > Len(perms) THEN <<>>
    ELSE (IF is_piece_of_color(
                get_with_game(g, pg, forward(pp.coords, perms[i], pp.piece.white)),
                ~pp.piece.white)
          THEN <<MoveNew(g, pg, pp.coords, forward(pp.coords, perms[i], pp.piece.white))>>
          ELSE <<>>)
         \o PawnCaptureMoves(g, pg, pp, perms, i + 1)

\* PawnEnPassantMoves that compares the mark with one diagonal only
PawnEnPassantMoves_OneDiagonal(g, pg, pp, board) ==
    IF can_enpassant(pp.piece) /\ board.en_passant # None
       /\ board.en_passant.val
            = physical(forward(pp.coords, Coords(0, 0, 1, 1), pp.piece.white))
    THEN <<MoveNew(g, pg, pp.coords,
              Coords(pp.coords[1], pp.coords[2],
                     board.en_passant.val[1], board.en_passant.val[2]))>>
    ELSE <<>>

\* the "En-passant" block, given the piece's own board
PawnEnPassantMoves(g, pg, pp, board) ==
    IF can_enpassant(pp.piece) /\ board.en_passant # None
       /\ (\/ board.en_passant.val
                = physical(forward(pp.coords, Coords(0, 0, 1, 1), pp.piece.white))
           \/ board.en_passant.val
                = physical(forward(pp.coords, Coords(0, 0, -1, 1), pp.piece.white)))
    THEN <<MoveNew(g, pg, pp.coords,
              Coords(pp.coords[1], pp.coords[2],
                     board.en_passant.val[1], board.en_passant.val[2]))>>
    ELSE <<>>

\* PawnIter::new: None when the piece's own board is absent
PawnIterNew(g, pg, pp) ==
    LET board == get_board_with_game(g, pg, non_physical(pp.coords))
    IN  IF board = None THEN None
        ELSE [tag |-> "Pawn",
              moves |-> PawnForwardMoves(g, pg, pp, 1)
                        \o PawnCaptureMoves(g, pg, pp,
                               IF pp.piece.kind = "Brawn" THEN BrawnCaptures ELSE PawnCaptures, 1)
                        \o PawnEnPassantMoves(g, pg, pp, board),
              state |-> 0]

\* PawnIter::next
PawnIterNext(it) ==
    IF it.state >= Len(it.moves) THEN [res |-> None, it |-> it]
    ELSE [res |-> it.moves[it.state + 1], it |-> [it EXCEPT !.state = it.state + 1]]

(***************************************************************************)
(* RangingPieceIter, OneStepPieceIter                                      *)
(***************************************************************************)
\* RangingPieceIterNew without the last direction of the table
RangingPieceIterNew_DropsLast(pp, cardinalities) ==
    [tag |-> "Ranging", piece |-> pp.piece, coords |-> pp.coords,
     cardinalities |-> SubSeq(cardinalities, 1, Len(cardinalities) - 1),
     cardinalities_index |-> 0, distance |-> 0]

RangingPieceIterNew(pp, cardinalities) ==
    [tag |-> "Ranging", piece |-> pp.piece, coords |-> pp.coords,
     cardinalities |-> cardinalities, cardinalities_index |-> 0, distance |-> 0]

\* the match on the tile at n_coords, shared by both iterators
TileMove(g, pg, p, coords, n_coords) ==
    LET tile == get_with_game(g, pg, n_coords)
    IN  CASE tile.tag = "Void" -> None
          [] tile.tag = "Blank" -> MoveNew(g, pg, coords, n_coords)
          [] tile.tag = "Piece" ->
                IF tile.white # p.white THEN MoveNew(g, pg, coords, n_coords) ELSE None

RECURSIVE RangingPieceIterNext_Restarts(_, _, _)
\* RangingPieceIterNext that starts over from the first direction once it has
\* returned None
RangingPieceIterNext_Restarts(g, pg, it) ==
    IF Len(it.cardinalities) <= it.cardinalities_index
    THEN [res |-> None, it |-> [it EXCEPT !.cardinalities_index = 0, !.distance = 0]]
    ELSE LET cardinality == it.cardinalities[it.cardinalities_index + 1]
             distance == it.distance + 1
             n_coords == CoordsAdd(it.coords, CoordsMul(cardinality, distance))
             res == TileMove(g, pg, it.piece, it.coords, n_coords)
         IN  IF res # None
             THEN [res |-> res, it |-> [it EXCEPT !.distance = distance]]
             ELSE RangingPieceIterNext_Restarts(g, pg,
                      [it EXCEPT !.distance = 0,
                                 !.cardinalities_index = it.cardinalities_index + 1])

RECURSIVE RangingPieceIterNext(_, _, _)
\* RangingPieceIter::next, the tail call included
RangingPieceIterNext(g, pg, it) ==
    IF Len(it.cardinalities) <= it.cardinalities_index
    THEN [res |-> None, it |-> it]
    ELSE LET cardinality == it.cardinalities[it.cardinalities_index + 1]
             distance == it.distance + 1
             n_coords == CoordsAdd(it.coords, CoordsMul(cardinality, distance))
             res == TileMove(g, pg, it.piece, it.coords, n_coords)
         IN  IF res # None
             THEN [res |-> res, it |-> [it EXCEPT !.distance = distance]]
             ELSE RangingPieceIterNext(g, pg,
                      [it EXCEPT !.distance = 0,
                                 !.cardinalities_index = it.cardinalities_index + 1])

OneStepPieceIterNew(pp, cardinalities) ==
    [tag |-> "OneStep", piece |-> pp.piece, coords |-> pp.coords,
     cardinalities |-> cardinalities, cardinalities_index |-> 0]

RECURSIVE OneStepPieceIterNext_StaysOnYield(_, _, _)
\* OneStepPieceIterNext that moves on to the next direction only after a miss
OneStepPieceIterNext_StaysOnYield(g, pg, it) ==
    IF Len(it.cardinalities) <= it.cardinalities_index
    THEN [res |-> None, it |-> it]
    ELSE LET moved_on == [it EXCEPT !.cardinalities_index = it.cardinalities_index + 1]
             cardinality == it.cardinalities[moved_on.cardinalities_index]
             n_coords == CoordsAdd(it.coords, cardinality)
             res == TileMove(g, pg, it.piece, it.coords, n_coords)
         IN  IF res # None
             THEN [res |-> res, it |-> it]
             ELSE OneStepPieceIterNext_StaysOnYield(g, pg, moved_on)

RECURSIVE OneStepPieceIterNext(_, _, _)
\* OneStepPieceIter::next, the tail call included
OneStepPieceIterNext(g, pg, it) ==
    IF Len(it.cardinalities) <= it.cardinalities_index
    THEN [res |-> None, it |-> it]
    ELSE LET moved_on == [it EXCEPT !.cardinalities_index = it.cardinalities_index + 1]
             cardinality == it.cardinalities[moved_on.cardinalities_index]
             n_coords == CoordsAdd(it.coords, cardinality)
             res == TileMove(g, pg, it.piece, it.coords, n_coords)
         IN  IF res # None
             THEN [res |-> res, it |-> moved_on]
             ELSE OneStepPieceIterNext(g, pg, moved_on)

\* PieceMoveIter::next
PieceMoveIterNext(g, pg, it) ==
    CASE it.tag = "Pawn" -> PawnIterNext(it)
      [] it.tag = "Ranging" -> RangingPieceIterNext(g, pg, it)
      [] it.tag = "OneStep" -> OneStepPieceIterNext(g, pg, it)

(***************************************************************************)
(* PiecePosition: generate_moves, validate_move                            *)
(***************************************************************************)
PiecePositionNew(p, coords) == [piece |-> p, coords |-> coords]

\* the chained tables of the Queen, RoyalQueen, King and CommonKing arms
QueenCardinalities == PERMUTATIONS[2] \o PERMUTATIONS[3] \o PERMUTATIONS[4] \o PERMUTATIONS[5]

generate_moves(g, pg, pp) ==
    CASE pp.piece.kind \in {"Pawn", "Brawn"} -> PawnIterNew(g, pg, pp)
      [] pp.piece.kind = "Knight" -> OneStepPieceIterNew(pp, PERMUTATIONS[1])
      [] pp.piece.kind = "Rook" -> RangingPieceIterNew(pp, PERMUTATIONS[2])
      [] pp.piece.kind = "Bishop" -> RangingPieceIterNew(pp, PERMUTATIONS[3])
      [] pp.piece.kind = "Unicorn" -> RangingPieceIterNew(pp, PERMUTATIONS[4])
      [] pp.piece.kind = "Dragon" -> RangingPieceIterNew(pp, PERMUTATIONS[5])
      [] pp.piece.kind = "Princess" ->
            RangingPieceIterNew(pp, PERMUTATIONS[2] \o PERMUTATIONS[3])
      [] pp.piece.kind \in {"Queen", "RoyalQueen"} ->
            RangingPieceIterNew(pp, QueenCardinalities)
      [] pp.piece.kind \in {"King", "CommonKing"} ->
            RangingPieceIterNew(pp, QueenCardinalities)

RECURSIVE IterFind(_, _, _, _)
\* Iterator::find(|m| m == mv)
IterFind(g, pg, it, mv) ==
    LET r == PieceMoveIterNext(g, pg, it)
    IN  IF r.res = None THEN None
        ELSE IF r.res = mv THEN r.res
        ELSE IterFind(g, pg, r.it, mv)

\* validate_move that compares mv with the first move of the iterator only
validate_move_FirstOnly(g, pg, pp, mv) ==
    LET i == generate_moves(g, pg, pp)
    IN  IF i = None THEN FALSE ELSE PieceMoveIterNext(g, pg, i).res = mv

validate_move(g, pg, pp, mv) ==
    LET i == generate_moves(g, pg, pp)
    IN  IF i = None THEN FALSE ELSE IterFind(g, pg, i, mv) # None

(***************************************************************************)
(* Game                                                                    *)
(***************************************************************************)
TimelineInfoNew(index, emerges_from, last_board, first_board) ==
    [index |-> index, emerges_from |-> emerges_from,
     last_board |-> last_board, first_board |-> first_board]

\* Game::new: no board yet
GameNew(width, height, even_timelines, timelines_white, timelines_black) ==
    [width |-> width, height |-> height,
     info |-> [even_timelines |-> even_timelines, active_player |-> TRUE,
               timelines_white |-> timelines_white,
               timelines_black |-> timelines_black, present |-> 0],
     boards |-> <<>>]

\* no_partial_game: the empty overlay
no_partial_game == [new_boards |-> <<>>]

\* Info::get_timeline, get_timeline_mut: the entry stored at the place of layer l
\* (white layers 0, 1, 2, ... and black layers -1, -2, ... in their own sequence)
get_timeline(info, l) ==
    IF l >= 0
    THEN IF l < Len(info.timelines_white) THEN Some(info.timelines_white[l + 1]) ELSE None
    ELSE IF -l - 1 < Len(info.timelines_black) THEN Some(info.timelines_black[-l]) ELSE None

Max(a, b) == IF a >= b THEN a ELSE b
Min(a, b) == IF a <= b THEN a ELSE b

RECURSIVE FillTimelines(_, _, _)
\* the sequence tl extended to n entries by empty timelines, white or black
FillTimelines(tl, n, white) ==
    IF Len(tl) >= n THEN tl
    ELSE FillTimelines(
            Append(tl, TimelineInfoNew(IF white THEN Len(tl) ELSE -Len(tl) - 1, None, 0, 0)),
            n, white)

\* Game::insert_board: stores the board under (L, T), raises the timeline's
\* last_board, and creates the timeline's entry where it is missing
insert_board(g, board) ==
    LET tl == get_timeline(g.info, board.l)
        info == IF tl # None
                THEN IF board.l >= 0
                     THEN [g.info EXCEPT !.timelines_white[board.l + 1].last_board =
                                              Max(@, board.t)]
                     ELSE [g.info EXCEPT !.timelines_black[-board.l].last_board =
                                              Max(@, board.t)]
                ELSE IF board.l >= 0
                     THEN [g.info EXCEPT !.timelines_white =
                              Append(FillTimelines(@, board.l, TRUE),
                                     TimelineInfoNew(board.l, None, board.t, board.t))]
                     ELSE [g.info EXCEPT !.timelines_black =
                              Append(FillTimelines(@, -board.l - 1, FALSE),
                                     TimelineInfoNew(board.l, None, board.t, board.t))]
    IN  [g EXCEPT !.info = info,
                  !.boards = (<<board.l, board.t>> :> board) @@ g.boards]

(***************************************************************************)
(* The multiverses the generator is run on: Dim x Dim boards on the layers *)
(* 0..MaxL and the times 0..MaxT, blank but for the piece that moves and   *)
(* one change: another piece, a timeline that ends early, a last layer     *)
(* that is absent, or a board held by the partial game.                    *)
(***************************************************************************)
AllSquares == {Coords(l, t, x, y) : l \in Layers, t \in Times, x \in 0..(Dim - 1), y \in 0..(Dim - 1)}

\* where the piece stands: in the corner its pawns start from, or (but for the
\* pieces of the longest table) in the middle
MoverCoords(p) ==
    {IF p.white THEN Coords(0, 0, 0, 0) ELSE Coords(MaxL, MaxT, Dim - 1, Dim - 1)}
    \cup (IF p.kind \in {"Queen", "RoyalQueen", "King", "CommonKing"}
          THEN {}
          ELSE {Coords(1, MaxT, 1, 1)})

\* the squares a piece's pattern reads from c, whatever stands on them
PatternSquares(p, c) ==
    (IF p.kind \in {"Pawn", "Brawn"}
     THEN LET caps == IF p.kind = "Brawn" THEN BrawnCaptures ELSE PawnCaptures
          IN  {forward(c, CoordsMul(PawnForwardPerms[i], k), p.white) :
                  i \in DOMAIN PawnForwardPerms, k \in 1..2}
              \cup {forward(c, caps[i], p.white) : i \in DOMAIN caps}
     ELSE LET it == generate_moves(GameNew(Dim, Dim, FALSE, <<>>, <<>>), no_partial_game,
                                   PiecePositionNew(p, c))
          IN  {CoordsAdd(c, CoordsMul(it.cardinalities[i], k)) :
                  i \in DOMAIN it.cardinalities, k \in 1..(MaxL + MaxT + Dim)})
    \cap (AllSquares \ {c})

Changes(p, c) ==
    {[type |-> "none"]}
    \cup {[type |-> "piece", at |-> s, white |-> w] : s \in PatternSquares(p, c), w \in BOOLEAN}
    \cup {[type |-> "short", l |-> l, t |-> t] :
            l \in {k \in Layers : k # c[1]}, t \in 1..MaxT}
    \cup {[type |-> "short", l |-> c[1], t |-> t] : t \in (c[2] + 1)..MaxT}
    \cup {[type |-> "absent"] : l \in {k \in {MaxL} : k # c[1]}}
    \cup {[type |-> "overlay", lt |-> <<l, MaxT>>] : l \in Layers}

\* whether the board (l, t) exists under the change
BoardExists(ch, l, t) ==
    /\ l \in Layers /\ t \in Times
    /\ ~(ch.type = "short" /\ ch.l = l /\ t >= ch.t)
    /\ ~(ch.type = "absent" /\ l = MaxL)

\* the marks the piece's own board may carry: none, or a square in front of it
Marks(p, c) ==
    {None}
    \cup (IF can_enpassant(p)
          THEN {Some(physical(s)) : s \in {forward(c, d, p.white) :
                                d \in {Coords(0, 0, 1, 1), Coords(0, 0, -1, 1), Coords(0, 0, 0, 1)}}
                                \cap AllSquares}
          ELSE {})

ScenarioTile(p, c, ch, s) ==
    IF s = c THEN PieceNew(p.kind, p.white, p.moved)
    ELSE IF ch.type = "piece" /\ ch.at = s THEN PieceNew("Pawn", ch.white, TRUE)
    ELSE Blank

ScenarioBoard(p, c, ch, mark, l, t) ==
    BoardNew(Dim, Dim, l, t,
        [i \in 1..(Dim * Dim) |->
            ScenarioTile(p, c, ch, Coords(l, t, (i - 1) % Dim, (i - 1) \div Dim))],
        IF <<l, t>> = non_physical(c) THEN mark ELSE None)

ScenarioLast(ch, l) ==
    IF ch.type = "short" /\ ch.l = l THEN ch.t - 1 ELSE MaxT

ScenarioGame(p, c, ch, mark) ==
    LET top == IF ch.type = "absent" THEN MaxL - 1 ELSE MaxL
        g == GameNew(Dim, Dim, FALSE,
                 [i \in 1..(top + 1) |-> TimelineInfoNew(i - 1, None, ScenarioLast(ch, i - 1), 0)],
                 <<>>)
        held == {lt \in Layers \X Times :
                    BoardExists(ch, lt[1], lt[2]) /\ ~(ch.type = "overlay" /\ ch.lt = lt)}
    IN  [g EXCEPT !.boards = [lt \in held |-> ScenarioBoard(p, c, ch, mark, lt[1], lt[2])]]

ScenarioPartialGame(p, c, ch, mark) ==
    IF ch.type = "overlay"
    THEN [new_boards |-> [lt \in {ch.lt} |-> ScenarioBoard(p, c, ch, mark, lt[1], lt[2])]]
    ELSE no_partial_game

(***************************************************************************)
(* The generator run: generate_moves, then next() until it returns None,   *)
(* then validate_move on moves of the caller's choice.                     *)
(***************************************************************************)
Init ==
    \E kind \in PieceKinds, white \in BOOLEAN, moved \in BOOLEAN :
     \E c \in MoverCoords(PieceNew(kind, white, moved)) :
      \E ch \in Changes(PieceNew(kind, white, moved), c) :
        \E mark \in Marks(PieceNew(kind, white, moved), c) :
          /\ (moved => kind \in {"Pawn", "Brawn"})
          /\ game = ScenarioGame(PieceNew(kind, white, moved), c, ch, mark)
          /\ partial_game = ScenarioPartialGame(PieceNew(kind, white, moved), c, ch, mark)
          /\ piece = PiecePositionNew(PieceNew(kind, white, moved), c)
          /\ iter = None
          /\ yielded = <<>>
          /\ last = None
          /\ validated = None
          /\ fens = <<>>
          /\ moveset = None
          /\ game_raw = None
          /\ filter = None
          /\ clock = 0
          /\ calls = <<>>
          /\ arg = None
          /\ ret = None
          /\ pc = "start"

GenerateMoves ==
    /\ pc = "start"
    /\ iter' = generate_moves(game, partial_game, piece)
    /\ pc' = "iter"
    /\ UNCHANGED <<game, partial_game, piece, yielded, last, validated, fens, moveset>>
    /\ UNCHANGED <<parseVars, timeVars, fnVars>>

\* one call of next() on the iterator; index and distance are those of the yield
IteratorNext ==
    /\ pc \in {"iter", "done"}
    /\ iter # None
    /\ LET r == PieceMoveIterNext(game, partial_game, iter)
       IN  /\ iter' = r.it
           /\ last' = r.res
           /\ yielded' = IF r.res = None THEN yielded
                         ELSE Append(yielded,
                                [mv |-> r.res,
                                 index |-> IF r.it.tag = "Pawn" THEN r.it.state
                                           ELSE r.it.cardinalities_index,
                                 distance |-> IF r.it.tag = "Ranging" THEN r.it.distance ELSE 1])
           /\ pc' = IF r.res = None THEN "done" ELSE pc
    /\ UNCHANGED <<game, partial_game, piece, validated, fens, moveset>>
    /\ UNCHANGED <<parseVars, timeVars, fnVars>>

\* the moves validate_move is asked about: the first and the last yielded, every move
\* to a square of the piece's own board, and a move of another square
ValidateCandidates ==
    {yielded[i].mv : i \in {1, Len(yielded)} \cap DOMAIN yielded}
    \cup {[from |-> piece.coords, to |-> s] :
            s \in {q \in AllSquares : non_physical(q) = non_physical(piece.coords)}}
    \cup {[from |-> CoordsAdd(piece.coords, Coords(0, 0, 1, 0)),
           to |-> CoordsAdd(piece.coords, Coords(0, 0, 1, 1))]}

ValidateMove ==
    /\ pc = "done"
    /\ validated = None
    /\ \E mv \in ValidateCandidates :
         validated' = [mv |-> mv, res |-> validate_move(game, partial_game, piece, mv)]
    /\ UNCHANGED <<game, partial_game, piece, iter, yielded, last, fens, moveset, pc>>
    /\ UNCHANGED <<parseVars, timeVars, fnVars>>

Next == GenerateMoves \/ IteratorNext \/ ValidateMove

Spec == Init /\ [][Next]_vars

(***************************************************************************)
(* Properties of the move generator                                        *)
(***************************************************************************)
TileAt(c) == get_with_game(game, partial_game, c)
YieldedMoves == {yielded[i].mv : i \in DOMAIN yielded}
YieldedTo == {yielded[i].mv.to : i \in DOMAIN yielded}
IsEnemy(tile) == is_piece_of_color(tile, ~piece.piece.white)

\* C1: a ranging piece's yield from + k*d has only Blank tiles before it on its
\* direction d (k = 1, 2, ... while Blank; nothing beyond the first non-Blank tile),
\* and stands itself on a Blank tile or an enemy piece.
C1_RangingStopsAtFirstNonBlank ==
    (piece.piece.kind \in {"Rook", "Bishop", "Unicorn", "Dragon", "Princess", "Queen", "RoyalQueen"}
     /\ iter # None)
    => \A i \in DOMAIN yielded :
         LET d == iter.cardinalities[yielded[i].index + 1]
         IN  /\ yielded[i].mv.to = CoordsAdd(piece.coords, CoordsMul(d, yielded[i].distance))
             /\ \A k \in 1..(yielded[i].distance - 1) :
                  is_blank(TileAt(CoordsAdd(piece.coords, CoordsMul(d, k))))
             /\ (is_blank(TileAt(yielded[i].mv.to)) \/ IsEnemy(TileAt(yielded[i].mv.to)))

\* C2: a King or a CommonKing yields only destinations one step away, from + d.
C2_KingOneStep ==
    (piece.piece.kind \in {"King", "CommonKing"} /\ iter # None)
    => \A i \in DOMAIN yielded :
         /\ yielded[i].distance = 1
         /\ yielded[i].mv.to
              = CoordsAdd(piece.coords, QueenCardinalities[yielded[i].index + 1])

\* C3: every yielded move ends on a Blank tile or on a piece of the other colour,
\* never on Void and never on a piece of the mover's colour.
C3_DestinationBlankOrEnemy ==
    \A i \in DOMAIN yielded :
        is_blank(TileAt(yielded[i].mv.to)) \/ IsEnemy(TileAt(yielded[i].mv.to))

IsPawnRun == piece.piece.kind \in {"Pawn", "Brawn"} /\ pc = "done"
\* the square k steps in front of the piece along the axis perm
Ahead(perm, k) == forward(piece.coords, CoordsMul(perm, k), piece.piece.white)
AxisY == Coords(0, 0, 0, 1)
AxisL == Coords(1, 0, 0, 0)
AxisT == Coords(0, 1, 0, 0)

\* C4: a pawn-like piece yields the two-square move along an axis exactly when it
\* has not moved and the square passed over and the destination are both Blank;
\* one that has moved yields no two-square move.
C4_KickstartIffUnmovedAndBlank ==
    /\ IsPawnRun =>
         \A perm \in {AxisY, AxisL} :
            (Ahead(perm, 2) \in YieldedTo)
            <=> (~piece.piece.moved /\ is_blank(TileAt(Ahead(perm, 1)))
                 /\ is_blank(TileAt(Ahead(perm, 2))))
    /\ (piece.piece.kind \in {"Pawn", "Brawn"} /\ piece.piece.moved) =>
         \A perm \in {AxisY, AxisL, AxisT, Coords(0, 0, 1, 0)} :
            Ahead(perm, 2) \notin YieldedTo /\ Ahead(perm, -2) \notin YieldedTo

C4_Witness ==
    /\ IsPawnRun /\ ~piece.piece.moved
    /\ Ahead(AxisL, 2) \in YieldedTo
    /\ Ahead(AxisY, 1) \in YieldedTo /\ Ahead(AxisY, 2) \notin YieldedTo

\* the moves of one square along a single axis, in either direction
UnitSteps ==
    {CoordsMul(a, k) : a \in {AxisL, AxisT, AxisY, Coords(0, 0, 1, 0)}, k \in {-1, 1}}

\* C5 as stated: the single steps a pawn-like piece yields are the step forward
\* along Y and the step forward along T, each exactly when its square is Blank.
C5_SingleStepsAlongYAndT ==
    IsPawnRun =>
      \A d \in UnitSteps :
         (CoordsAdd(piece.coords, d) \in YieldedTo)
         <=> (d \in {CoordsSub(Ahead(AxisY, 1), piece.coords),
                     CoordsSub(Ahead(AxisT, 1), piece.coords)}
              /\ is_blank(TileAt(CoordsAdd(piece.coords, d))))

\* C5 (amended): the single steps a pawn-like piece yields are the step forward
\* along Y (same L, T, X) and the step forward along L (dl = +1 if white, -1 if
\* black; same T, X, Y), each exactly when its square is Blank.
C5_SingleStepsAlongYAndL ==
    IsPawnRun =>
      \A d \in UnitSteps :
         (CoordsAdd(piece.coords, d) \in YieldedTo)
         <=> (d \in {CoordsSub(Ahead(AxisY, 1), piece.coords),
                     CoordsSub(Ahead(AxisL, 1), piece.coords)}
              /\ is_blank(TileAt(CoordsAdd(piece.coords, d))))

C5_Witness ==
    /\ IsPawnRun
    /\ Ahead(AxisL, 1) \in YieldedTo
    /\ is_blank(TileAt(Ahead(AxisT, 1))) /\ Ahead(AxisT, 1) \notin YieldedTo
    /\ ~is_blank(TileAt(Ahead(AxisY, 1))) /\ Ahead(AxisY, 1) \notin YieldedTo

\* the number of yields that end on the square s
YieldsTo(s) == Cardinality({i \in DOMAIN yielded : yielded[i].mv.to = s})
\* the two squares diagonally in front of the piece, on its own board
ForwardDiagonals ==
    {forward(piece.coords, Coords(0, 0, 1, 1), piece.piece.white),
     forward(piece.coords, Coords(0, 0, -1, 1), piece.piece.white)}
OwnBoard == get_board_with_game(game, partial_game, non_physical(piece.coords))
MarkedAt(s) == OwnBoard.en_passant = Some(physical(s))

\* C6: a pawn-like piece yields an en-passant move exactly when the mark of its own
\* board is one of its two forward diagonals, and that move ends on the marked
\* square of that board: beside the capture of an enemy standing there, each
\* forward diagonal is yielded once if it is marked and not otherwise.
C6_EnPassantIffMarkOnDiagonal ==
    IsPawnRun =>
      /\ \A s \in ForwardDiagonals :
            YieldsTo(s) = (IF IsEnemy(TileAt(s)) THEN 1 ELSE 0)
                          + (IF can_enpassant(piece.piece) /\ MarkedAt(s) THEN 1 ELSE 0)
      /\ (\E s \in ForwardDiagonals : MarkedAt(s))
            => yielded[Len(yielded)].mv.to
                 = Coords(piece.coords[1], piece.coords[2],
                          OwnBoard.en_passant.val[1], OwnBoard.en_passant.val[2])

C6_Witness ==
    /\ IsPawnRun
    /\ \E s \in ForwardDiagonals :
          /\ MarkedAt(s) /\ is_blank(TileAt(s)) /\ YieldsTo(s) = 1
          /\ s = forward(piece.coords, Coords(0, 0, -1, 1), piece.piece.white)

\* C7: validate_move(mv) is true exactly when mv is one of the moves the iterator
\* of generate_moves yields for the same piece and view.
C7_ValidateIffYielded ==
    (validated # None) => (validated.res <=> validated.mv \in YieldedMoves)

C7_Witness ==
    /\ validated # None /\ validated.res
    /\ Len(yielded) >= 2 /\ validated.mv = yielded[Len(yielded)].mv

MaxFens == 2
\* the layers the headers name: -MaxFenL .. MaxFenL, and the half layers -0, +0
MaxFenL == 2
\* the turns the headers name: 1 .. MaxFenTurn
MaxFenTurn == 1

\* Layer::from_str, Time::from_str on the decimal numerals of the headers
FromStr(raw) ==
    CHOOSE n \in (-MaxFenL - 1)..(MaxFenL + MaxFenTurn + 1) :
        ToString(n) = raw \/ (n >= 0 /\ "+" \o ToString(n) = raw)

FenLayers == {"-0", "+0"} \cup {ToString(n) : n \in (-MaxFenL)..MaxFenL}
FenTurns == {ToString(n) : n \in 1..MaxFenTurn}
\* the empty position: "3/3/3" on 3x3 boards
EmptyPosition == [y \in 1..Dim |-> <<ToString(Dim)>>]
\* fen[0..3] of the headers
Fens == [position : {EmptyPosition}, l : FenLayers, turn : FenTurns, color : {"w", "b"}]

RECURSIVE SeqsUpTo(_, _)
\* the sequences over S of length 1..n
SeqsUpTo(S, n) ==
    IF n = 0 THEN {}
    ELSE {<<x>> : x \in S} \cup {<<x>> \o q : x \in S, q \in SeqsUpTo(S, n - 1)}

de_str_layer(raw, even_timelines) ==
    IF raw = "-0" THEN -1
    ELSE IF raw = "+0" THEN 0
    ELSE IF FromStr(raw) < 0 /\ even_timelines THEN FromStr(raw) - 1
    ELSE FromStr(raw)

\* the strings Layer::from_str, Time::from_str and usize::from_str accept
IsNumeral(raw) ==
    \E n \in (-MaxFenL - 1)..(MaxFenL + MaxFenTurn + 1) :
        ToString(n) = raw \/ (n >= 0 /\ "+" \o ToString(n) = raw)

\* c >= '0' && c <= '9'
Digits == {"0", "1", "2", "3", "4", "5", "6", "7", "8", "9"}
RECURSIVE SkipValue(_)
\* usize::from_str of the digits gathered in skip
SkipValue(skip) ==
    IF skip = <<>> THEN 0
    ELSE SkipValue(SubSeq(skip, 1, Len(skip) - 1)) * 10
             + (CHOOSE n \in 0..9 : ToString(n) = skip[Len(skip)])

\* the piece letters of a FEN, upper case for white
FenKinds ==
    [p |-> "Pawn", r |-> "Rook", b |-> "Bishop", u |-> "Unicorn", d |-> "Dragon",
     q |-> "Queen", s |-> "Princess", k |-> "King", c |-> "CommonKing", n |-> "Knight",
     w |-> "Brawn", y |-> "RoyalQueen",
     P |-> "Pawn", R |-> "Rook", B |-> "Bishop", U |-> "Unicorn", D |-> "Dragon",
     Q |-> "Queen", S |-> "Princess", K |-> "King", C |-> "CommonKing", N |-> "Knight",
     W |-> "Brawn", Y |-> "RoyalQueen"]
is_ascii_uppercase(c) == c \in {"P", "R", "B", "U", "D", "Q", "S", "K", "C", "N", "W", "Y"}

Ok(v) == [tag |-> "Ok", val |-> v]
Err(e) == [tag |-> "Err", err |-> e]
\* a fault: unwrap() on an error, an index out of range, an arithmetic underflow
Panic(why) == [tag |-> "panic", why |-> why]

\* Board::set
BoardSet(board, x, y, tile) == [board EXCEPT !.pieces[y * board.width + x + 1] = tile]

RECURSIVE ParseFenRow(_, _, _, _, _, _)
\* "for each char": the chars i.. of the row of rank y, with x squares done and the
\* digits of skip gathered
ParseFenRow(board, row, y, i, x, skip) ==
    IF i > Len(row)
    THEN IF x + SkipValue(skip) # board.width
         THEN Err("FENDimensionX") ELSE Ok(board)
    ELSE IF row[i] \in Digits
    THEN ParseFenRow(board, row, y, i + 1, x, Append(skip, row[i]))
    ELSE LET at == x + SkipValue(skip)
         IN  IF row[i] = "*"
             THEN IF y * board.width + at = 0
                  THEN Panic("attempt to subtract with overflow")
                  ELSE IF y * board.width + at - 1 >= Len(board.pieces)
                  THEN Panic("index out of bounds")
                  ELSE IF is_piece(board.pieces[y * board.width + at])
                  THEN ParseFenRow(
                          [board EXCEPT !.pieces[y * board.width + at].moved = FALSE],
                          row, y, i + 1, at, <<>>)
                  ELSE Err("FENUnexpected")
             ELSE IF row[i] \notin DOMAIN FenKinds THEN Err("FENUnexpected")
             ELSE IF at >= board.width THEN Err("FENDimensionX")
             ELSE ParseFenRow(
                     BoardSet(board, at, y,
                         PieceNew(FenKinds[row[i]], is_ascii_uppercase(row[i]), FALSE)),
                     row, y, i + 1, at + 1, <<>>)

RECURSIVE ParseFenRows(_, _, _)
\* "for each row": the rows k.. of the position, the first row being the top rank
ParseFenRows(board, rows, k) ==
    IF k > Len(rows) THEN Ok(board)
    ELSE LET r == ParseFenRow(board, rows[k], board.height - (k - 1) - 1, 1, 0, <<>>)
         IN  IF r.tag # "Ok" THEN r ELSE ParseFenRows(r.val, rows, k + 1)

\* parse_fen: fen.position is fen[0] split at "/", each row a sequence of chars;
\* fen.l, fen.turn and fen.color are fen[1], fen[2] and fen[3]
parse_fen(fen, g) ==
    IF fen.l \notin {"-0", "+0"} /\ ~IsNumeral(fen.l) THEN Err("InvalidL")
    ELSE IF ~IsNumeral(fen.turn) THEN Panic("called unwrap() on an Err value")
    ELSE LET board == BoardNew(g.width, g.height,
                         de_str_layer(fen.l, g.info.even_timelines),
                         (FromStr(fen.turn) - 1) * 2 + (IF fen.color # "w" THEN 1 ELSE 0),
                         [i \in 1..(g.width * g.height) |-> Blank],
                         None)
         IN  IF Len(fen.position) # g.height THEN Err("FENDimensionY")
             ELSE ParseFenRows(board, fen.position, 1)

RECURSIVE PushWhile(_, _, _)
\* the two while loops of parse_and_insert_fen: empty timelines are pushed while
\* len + 1 < l (white, l = board.l) or len + 2 < l (black, l = -board.l)
PushWhile(tl, l, white) ==
    IF Len(tl) + (IF white THEN 1 ELSE 2) < l
    THEN PushWhile(
            Append(tl, TimelineInfoNew(IF white THEN Len(tl) ELSE -Len(tl) - 1, None, 0, 0)),
            l, white)
    ELSE tl

\* parse_and_insert_fen once parse_fen has returned Ok(board)
parse_and_insert_fen(fen, g) ==
    LET board == parse_fen(fen, g).val
        tl == get_timeline(g.info, board.l)
        info ==
            IF tl # None
            THEN IF board.l >= 0
                 THEN [g.info EXCEPT
                         !.timelines_white[board.l + 1].last_board = Max(@, board.t),
                         !.timelines_white[board.l + 1].first_board = Min(@, board.t)]
                 ELSE [g.info EXCEPT
                         !.timelines_black[-board.l].last_board = Max(@, board.t),
                         !.timelines_black[-board.l].first_board = Min(@, board.t)]
            ELSE IF board.l >= 0
                 THEN [g.info EXCEPT !.timelines_white =
                          Append(PushWhile(@, board.l, TRUE),
                                 TimelineInfoNew(board.l, None, board.t, board.t))]
                 ELSE [g.info EXCEPT !.timelines_black =
                          Append(PushWhile(@, -board.l, FALSE),
                                 TimelineInfoNew(board.l, None, board.t, board.t))]
    IN  insert_board([g EXCEPT !.info = info], board)

InitFen ==
    /\ game = GameNew(Dim, Dim, FALSE, <<TimelineInfoNew(0, None, 0, 0)>>, <<>>)
    /\ fens \in SeqsUpTo(Fens, MaxFens)
    /\ partial_game = no_partial_game
    /\ piece = None
    /\ iter = None
    /\ yielded = <<>>
    /\ last = None
    /\ validated = None
    /\ moveset = None
    /\ game_raw = None
    /\ filter = None
    /\ clock = 0
    /\ calls = <<>>
    /\ arg = None
    /\ ret = None
    /\ pc = "pgn"

\* parse_pgn, board "custom": a half layer among the headers makes the timelines even
ParsePgnCustom ==
    /\ pc = "pgn"
    /\ game' = [game EXCEPT !.info.even_timelines =
                   \E i \in DOMAIN fens : fens[i].l \in {"+0", "-0"}]
    /\ pc' = "fens"
    /\ UNCHANGED <<partial_game, piece, iter, yielded, last, validated, fens, moveset>>
    /\ UNCHANGED <<parseVars, timeVars, fnVars>>

\* one turn of the loop over the headers; an error of parse_fen ends parse_pgn, and
\* insert_board's assertion stops the run on a second board of the same (L, T)
ParseAndInsertFen ==
    /\ pc = "fens"
    /\ fens # <<>>
    /\ LET r == parse_fen(Head(fens), game)
       IN  IF r.tag # "Ok"
           THEN /\ pc' = IF r.tag = "Err" THEN "error" ELSE "panic"
                /\ UNCHANGED <<game, fens>>
           ELSE IF <<r.val.l, r.val.t>> \in DOMAIN game.boards
           THEN /\ pc' = "panic"
                /\ UNCHANGED <<game, fens>>
           ELSE /\ game' = parse_and_insert_fen(Head(fens), game)
                /\ fens' = Tail(fens)
                /\ pc' = IF Tail(fens) = <<>> THEN "parsed" ELSE "fens"
    /\ UNCHANGED <<partial_game, piece, iter, yielded, last, validated, moveset>>
    /\ UNCHANGED <<parseVars, timeVars, fnVars>>

NextFen == ParsePgnCustom \/ ParseAndInsertFen

SpecFen == InitFen /\ [][NextFen]_vars

\* C10: after any sequence of parse_and_insert_fen calls the registry has no gap
\* and is ordered: timelines_white[i].index = i and timelines_black[i].index = -(i+1),
\* counting i from 0.
C10_RegistryOrderedNoGaps ==
    /\ \A i \in DOMAIN game.info.timelines_white :
          game.info.timelines_white[i].index = i - 1
    /\ \A i \in DOMAIN game.info.timelines_black :
          game.info.timelines_black[i].index = -i

(***************************************************************************)
(* Moveset::new(moves, info): the moves of one half-turn, one per own board *)
(* at the present, checked against the timeline registry.                  *)
(***************************************************************************)
\* the layers of the games a moveset is composed on
MovesetLayers == {0, 1}

\* a board of the player to move: white plays the boards of even T
IsOwnTime(info, t) == (t % 2 = 0) = info.active_player

\* rule 1: the source is an own board at T = last_board of its timeline
SourceAtLastBoard(info, mv) ==
    LET tl == get_timeline(info, mv.from[1])
    IN  tl # None /\ mv.from[2] = tl.val.last_board /\ IsOwnTime(info, mv.from[2])

\* the destination is a board of the registry: its timeline exists and holds T
DestinationInTimeline(info, mv) ==
    LET tl == get_timeline(info, mv.to[1])
    IN  tl # None /\ mv.to[2] >= tl.val.first_board /\ mv.to[2] <= tl.val.last_board

\* rule 2: no two moves share a source board
DistinctSources(moves) ==
    \A i, j \in DOMAIN moves : i # j => non_physical(moves[i].from) # non_physical(moves[j].from)

\* coverage: every timeline whose last board is at the present is the source of a move
CoversPresent(info, moves) ==
    \A k \in DOMAIN info.timelines_white :
        info.timelines_white[k].last_board = info.present
        => \E i \in DOMAIN moves :
              non_physical(moves[i].from) = <<info.timelines_white[k].index, info.present>>

\* Moveset::new that does not look at the destinations
MovesetNew_SourceOnly(moves, info) ==
    IF /\ \A i \in DOMAIN moves : SourceAtLastBoard(info, moves[i])
       /\ DistinctSources(moves)
       /\ CoversPresent(info, moves)
    THEN [tag |-> "Ok", moves |-> moves]
    ELSE [tag |-> "Err"]

MovesetNew(moves, info) ==
    IF /\ \A i \in DOMAIN moves :
            SourceAtLastBoard(info, moves[i]) /\ DestinationInTimeline(info, moves[i])
       /\ DistinctSources(moves)
       /\ CoversPresent(info, moves)
    THEN [tag |-> "Ok", moves |-> moves]
    ELSE [tag |-> "Err"]

\* a game of blank boards whose timeline l runs from T = 0 to lasts[l + 1]
MovesetGame(lasts) ==
    LET present == IF \A k \in DOMAIN lasts : lasts[1] <= lasts[k] THEN lasts[1] ELSE lasts[2]
        g == GameNew(Dim, Dim, FALSE,
                 [k \in DOMAIN lasts |-> TimelineInfoNew(k - 1, None, lasts[k], 0)], <<>>)
        held == {lt \in MovesetLayers \X Times : lt[1] + 1 \in DOMAIN lasts /\ lt[2] <= lasts[lt[1] + 1]}
    IN  [g EXCEPT !.info.present = present,
                  !.info.active_player = (present % 2 = 0),
                  !.boards = [lt \in held |->
                                 BoardNew(Dim, Dim, lt[1], lt[2],
                                          [i \in 1..(Dim * Dim) |-> Blank], None)]]

\* the moves a list is made of: from the square (1, 0) of a board to the square
\* (2, 2) of a board, of the game or not
MovesetMoves(g, pg) ==
    {MoveNew(g, pg, Coords(l, t, 1, 0), Coords(l2, t2, 2, 2)) :
        l \in MovesetLayers, t \in Times, l2 \in MovesetLayers, t2 \in 0..(MaxT + 1)}

\* the lists given to Moveset::new: one move, or a move and a spatial move
MovesetLists(g, pg) ==
    {<<m>> : m \in MovesetMoves(g, pg)}
    \cup {<<m, n>> : m \in MovesetMoves(g, pg),
                     n \in {q \in MovesetMoves(g, pg) : non_physical(q.from) = non_physical(q.to)}}

InitMoveset ==
    /\ \E lasts \in SeqsUpTo(Times, Cardinality(MovesetLayers)) : game = MovesetGame(lasts)
    /\ partial_game = no_partial_game
    /\ piece = None
    /\ iter = None
    /\ yielded = <<>>
    /\ last = None
    /\ validated = None
    /\ fens = <<>>
    /\ moveset = None
    /\ game_raw = None
    /\ filter = None
    /\ clock = 0
    /\ calls = <<>>
    /\ arg = None
    /\ ret = None
    /\ pc = "start"

ComposeMoveset ==
    /\ pc = "start"
    /\ \E moves \in MovesetLists(game, partial_game) :
          moveset' = [moves |-> moves, res |-> MovesetNew(moves, game.info)]
    /\ pc' = "done"
    /\ UNCHANGED <<game, partial_game, piece, iter, yielded, last, validated, fens>>
    /\ UNCHANGED <<parseVars, timeVars, fnVars>>

NextMoveset == ComposeMoveset

SpecMoveset == InitMoveset /\ [][NextMoveset]_vars

\* a board of the game that is the last of its layer and is the mover's to play
IsPlayableBoard(lt) ==
    /\ lt \in DOMAIN game.boards
    /\ <<lt[1], lt[2] + 1>> \notin DOMAIN game.boards
    /\ (lt[2] % 2 = 0) = game.info.active_player
PresentBoards == {lt \in DOMAIN game.boards : IsPlayableBoard(lt) /\ lt[2] = game.info.present}

\* C9: Moveset::new returns an error for a list holding a move whose source is not
\* an own board at the last T of its timeline, or whose destination is a board the
\* game does not have; it accepts the list of one spatial move from the only
\* present board.
C9_MovesetRejectsUnplayable ==
    moveset # None =>
      /\ (\E i \in DOMAIN moveset.moves :
             \/ ~IsPlayableBoard(non_physical(moveset.moves[i].from))
             \/ non_physical(moveset.moves[i].to) \notin DOMAIN game.boards)
         => moveset.res.tag = "Err"
      /\ (/\ Len(moveset.moves) = 1
          /\ non_physical(moveset.moves[1].from) = non_physical(moveset.moves[1].to)
          /\ PresentBoards = {non_physical(moveset.moves[1].from)})
         => moveset.res.tag = "Ok"

\* the move (0,0,1,0) -> (0,2,2,2) on the game whose only board is (0,0) is rejected
C9_Witness ==
    /\ moveset # None
    /\ DOMAIN game.boards = {<<0, 0>>}
    /\ moveset.moves = <<[from |-> Coords(0, 0, 1, 0), to |-> Coords(0, 2, 2, 2)]>>
    /\ moveset.res.tag = "Err"

\* the entries of the registry, white and black
Timelines == {game.info.timelines_white[i] : i \in DOMAIN game.info.timelines_white}
             \cup {game.info.timelines_black[i] : i \in DOMAIN game.info.timelines_black}
BoardsOfLayer(l) == {lt \in DOMAIN game.boards : lt[1] = l}

\* C11: for every timeline that received a board, every T of [first_board, last_board]
\* maps to a board whose (L, T) matches, and last_board - first_board + 1 is the
\* number of boards of the timeline.
C11_TimelineBoardsContiguous ==
    \A tl \in Timelines :
        BoardsOfLayer(tl.index) # {} =>
          /\ \A t \in tl.first_board..tl.last_board :
                /\ <<tl.index, t>> \in DOMAIN game.boards
                /\ game.boards[<<tl.index, t>>].l = tl.index
                /\ game.boards[<<tl.index, t>>].t = t
          /\ tl.last_board - tl.first_board + 1 = Cardinality(BoardsOfLayer(tl.index))

(***************************************************************************)
(* parse: a JSON game (GameRaw) is turned into a Game, then the moved      *)
(* flags and the en-passant marks are reconstructed by walking every       *)
(* initial timeline forward in time and into the timelines it spawns.      *)
(* An f32 timeline index is kept as its number of halves: -0.5 is -1,      *)
(* 0.5 is 1, 1.0 is 2.                                                     *)
(***************************************************************************)
\* f32::floor and f32::ceil of h halves
HalfFloor(h) == h \div 2
HalfCeil(h) == -((-h) \div 2)

\* de_layer that forgets the shift of the negative half indices
de_layer_NoShift(raw, even_timelines) ==
    IF even_timelines /\ raw < 0 THEN HalfCeil(raw) ELSE HalfFloor(raw)

de_layer(raw, even_timelines) ==
    IF even_timelines /\ raw < 0 THEN HalfCeil(raw) - 1 ELSE HalfFloor(raw)

\* the kinds in the order of their codes 1..12 (white) and 33..44 (black)
PieceCodes ==
    << "Pawn", "Knight", "Bishop", "Rook", "Queen", "King",
       "Unicorn", "Dragon", "Princess", "Brawn", "CommonKing", "RoyalQueen" >>

\* de_piece whose black codes start at 32
de_piece_BlackFrom32(raw) ==
    IF raw \in 1..12 THEN PieceNew(PieceCodes[raw], TRUE, TRUE)
    ELSE IF raw \in 32..43 THEN PieceNew(PieceCodes[raw - 31], FALSE, TRUE)
    ELSE Blank

de_piece(raw) ==
    IF raw \in 1..12 THEN PieceNew(PieceCodes[raw], TRUE, TRUE)
    ELSE IF raw \in 33..44 THEN PieceNew(PieceCodes[raw - 32], FALSE, TRUE)
    ELSE Blank

\* cmp_pieces: same kind and colour, or both Blank (a Void tile panics)
cmp_pieces(left, right) ==
    IF is_piece(left) /\ is_piece(right)
    THEN left.kind = right.kind /\ left.white = right.white
    ELSE is_blank(left) /\ is_blank(right)

\* Tile::is_empty: no piece on the tile
is_empty(tile) == tile.tag # "Piece"
\* Piece::can_kickstart
can_kickstart(p) == p.kind \in {"Pawn", "Brawn"}

\* ReconstructBoard that clears the flag of a piece that stays ("Set its flag to false")
ReconstructBoard_ClearsFlag(board, state, previous_board) ==
    LET stays(i) == cmp_pieces(board.pieces[i], state[i])
        pieces == [i \in DOMAIN board.pieces |->
                     IF is_piece(board.pieces[i])
                     THEN [board.pieces[i] EXCEPT !.moved = ~stays(i)]
                     ELSE board.pieces[i]]
    IN  [board |-> [board EXCEPT !.pieces = pieces],
         state |-> [i \in DOMAIN state |-> IF stays(i) THEN state[i] ELSE pieces[i]]]

\* ReconstructBoard that hands the mark of the previous board on when the board sets none
ReconstructBoard_KeepsMark(board, state, previous_board) ==
    LET xOf(i) == (i - 1) % board.width
        yOf(i) == (i - 1) \div board.width
        stays(i) == cmp_pieces(board.pieces[i], state[i])
        pieces == [i \in DOMAIN board.pieces |->
                     IF is_piece(board.pieces[i])
                     THEN [board.pieces[i] EXCEPT
                             !.moved = IF stays(i) THEN state[i].moved ELSE TRUE]
                     ELSE board.pieces[i]]
        behind(i) == IF board.pieces[i].white THEN <<xOf(i), yOf(i) - 1>>
                                              ELSE <<xOf(i), yOf(i) + 1>>
        marking == {i \in DOMAIN board.pieces :
                      /\ ~stays(i)
                      /\ is_piece(board.pieces[i])
                      /\ can_kickstart(board.pieces[i])
                      /\ is_empty(BoardGet(previous_board, behind(i)[1], behind(i)[2]))}
        en_passant == IF marking = {} THEN previous_board.en_passant
                      ELSE Some(behind(CHOOSE i \in marking : \A j \in marking : j <= i))
        new_board == [board EXCEPT !.pieces = pieces, !.en_passant = en_passant]
    IN  [board |-> new_board,
         state |-> [i \in DOMAIN state |-> IF stays(i) THEN state[i] ELSE pieces[i]]]

\* the closure given to bubble_down_mut: the board is compared, square by square,
\* with the running state; returns the board, the new state and the same board as
\* the next previous_board
ReconstructBoard(board, state, previous_board) ==
    LET xOf(i) == (i - 1) % board.width
        yOf(i) == (i - 1) \div board.width
        stays(i) == cmp_pieces(board.pieces[i], state[i])
        pieces == [i \in DOMAIN board.pieces |->
                     IF is_piece(board.pieces[i])
                     THEN [board.pieces[i] EXCEPT
                             !.moved = IF stays(i) THEN state[i].moved ELSE TRUE]
                     ELSE board.pieces[i]]
        behind(i) == IF board.pieces[i].white THEN <<xOf(i), yOf(i) - 1>>
                                              ELSE <<xOf(i), yOf(i) + 1>>
        marking == {i \in DOMAIN board.pieces :
                      /\ ~stays(i)
                      /\ is_piece(board.pieces[i])
                      /\ can_kickstart(board.pieces[i])
                      /\ is_empty(BoardGet(previous_board, behind(i)[1], behind(i)[2]))}
        en_passant == IF marking = {} THEN board.en_passant
                      ELSE Some(behind(CHOOSE i \in marking : \A j \in marking : j <= i))
        new_board == [board EXCEPT !.pieces = pieces, !.en_passant = en_passant]
    IN  [board |-> new_board,
         state |-> [i \in DOMAIN state |-> IF stays(i) THEN state[i] ELSE pieces[i]]]

\* the timelines of the registry, white then black
AllTimelines(info) == info.timelines_white \o info.timelines_black

RECURSIVE BubbleDown(_, _, _)
RECURSIVE BubbleBranches(_, _, _, _)
\* bubble_down_mut: the closure is applied to the board at coords, then to the next
\* board of the layer and to the first board of every timeline emerging from coords
BubbleDown(g, coords, value) ==
    IF coords \notin DOMAIN g.boards THEN g
    ELSE LET r == ReconstructBoard(g.boards[coords], value.state, value.previous_board)
             passed == [state |-> r.state, previous_board |-> r.board]
             g1 == [g EXCEPT !.boards[coords] = r.board]
             g2 == BubbleDown(g1, <<coords[1], coords[2] + 1>>, passed)
         IN  BubbleBranches(g2, coords, passed, 1)

BubbleBranches(g, coords, value, k) ==
    IF k > Len(AllTimelines(g.info)) THEN g
    ELSE LET tl == AllTimelines(g.info)[k]
         IN  BubbleBranches(
                 IF tl.emerges_from = Some(coords)
                 THEN BubbleDown(g, <<tl.index, tl.first_board>>, value)
                 ELSE g,
                 coords, value, k + 1)

\* the TimelineInfo of a TimelineRaw
ParseTimelineInfo(tl, even_timelines) ==
    TimelineInfoNew(
        de_layer(tl.index, even_timelines),
        IF tl.emerges_from = None THEN None
        ELSE Some(<<de_layer(tl.emerges_from.val, even_timelines), tl.begins_at - 1>>),
        tl.begins_at + Len(tl.states) - 1,
        tl.begins_at)

RECURSIVE ParseInsertBoards(_, _, _, _, _)
\* the boards of the timelines k.. of the file, from the state dt of timeline k on
ParseInsertBoards(g, raw, even_timelines, k, dt) ==
    IF k > Len(raw.timelines) THEN g
    ELSE IF dt >= Len(raw.timelines[k].states)
    THEN ParseInsertBoards(g, raw, even_timelines, k + 1, 0)
    ELSE ParseInsertBoards(
            insert_board(g,
                BoardNew(raw.width, raw.height,
                    de_layer(raw.timelines[k].index, even_timelines),
                    raw.timelines[k].begins_at + dt,
                    [i \in DOMAIN raw.timelines[k].states[dt + 1] |->
                        de_piece(raw.timelines[k].states[dt + 1][i])],
                    None)),
            raw, even_timelines, k, dt + 1)

RECURSIVE ParseFillMoved(_, _, _, _)
\* "Fill in the moved field of the pieces": one walk per initial layer; None when
\* the layer has no timeline, a panic ("Void in board!") when it has no first board
ParseFillMoved(g, raw, even_timelines, k) ==
    IF k > Len(raw.initial_board_indices) THEN g
    ELSE LET layer == de_layer(raw.initial_board_indices[k], even_timelines)
             tl == get_timeline(g.info, layer)
         IN  IF tl = None THEN None
             ELSE IF <<layer, tl.val.first_board>> \notin DOMAIN g.boards
             THEN [tag |-> "panic"]
             ELSE LET coords == <<layer, tl.val.first_board>>
                      initial_board == get_board_with_game(g, no_partial_game, coords)
                      initial_state ==
                          [i \in 1..(raw.width * raw.height) |->
                              IF is_piece(initial_board.pieces[i])
                              THEN [initial_board.pieces[i] EXCEPT !.moved = FALSE]
                              ELSE initial_board.pieces[i]]
                  IN  ParseFillMoved(
                          BubbleDown(g, coords,
                              [state |-> initial_state, previous_board |-> initial_board]),
                          raw, even_timelines, k + 1)

parse(raw) ==
    LET even_timelines == \E i \in DOMAIN raw.timelines : raw.timelines[i].index \in {-1, 1}
        info_of(tl) == ParseTimelineInfo(tl, even_timelines)
        is_white(tl) == tl.index >= 0
        is_black(tl) == tl.index < 0
        white == SelectSeq(raw.timelines, is_white)
        black == SelectSeq(raw.timelines, is_black)
        res == GameNew(raw.width, raw.height, even_timelines,
                   [i \in DOMAIN white |-> info_of(white[i])],
                   [i \in DOMAIN black |-> info_of(black[i])])
    IN  ParseFillMoved(ParseInsertBoards(res, raw, even_timelines, 1, 0),
                       raw, even_timelines, 1)

\* the longest timeline of a file, in boards
MaxStates == 3
\* GameRaw.width, GameRaw.height of the files
ParseWidth == 1
ParseHeight == 2
\* the square codes of the files: empty, white Pawn, black Pawn
RawCodes == {0, 1, 33}
RawBoards == [1..(ParseWidth * ParseHeight) -> RawCodes]

TimelineRawNew(index, states, begins_at, emerges_from) ==
    [index |-> index, states |-> states, width |-> ParseWidth, height |-> ParseHeight,
     begins_at |-> begins_at, emerges_from |-> emerges_from]

GameRawNew(timelines, initial_board_indices) ==
    [timelines |-> timelines, width |-> ParseWidth, height |-> ParseHeight,
     active_player |-> TRUE, initial_board_indices |-> initial_board_indices]

\* boards of 2x3 squares (square (x, y) at index y * 2 + x + 1) around the half-moves
\* of a white Pawn on (0, 0) and a black Pawn on (1, 2): the start, the white Pawn
\* advanced by two and by one, the white Pawn of (0, 1) having taken the black one,
\* the black Pawn advanced by two, and the black Pawn advanced by one after the
\* white one advanced by two
PawnBoards ==
    [start |-> <<1, 0, 0, 0, 0, 33>>,
     white_two |-> <<0, 0, 0, 0, 1, 33>>,
     white_one |-> <<0, 0, 1, 0, 0, 33>>,
     white_takes |-> <<0, 0, 0, 0, 0, 1>>,
     black_two |-> <<1, 33, 0, 0, 0, 0>>,
     white_two_black_one |-> <<0, 0, 0, 33, 1, 0>>]

\* the files of 2x3 boards: the timeline 0 alone, its states among PawnBoards
PawnGameRaws ==
    {[timelines |-> <<[index |-> 0, states |-> states, width |-> 2, height |-> 3,
                       begins_at |-> 0, emerges_from |-> None]>>,
      width |-> 2, height |-> 3, active_player |-> TRUE,
      initial_board_indices |-> <<0>>] :
        states \in SeqsUpTo({PawnBoards[n] : n \in DOMAIN PawnBoards}, MaxStates)}

\* the files: the timeline 0 alone; the timeline 0, one board shorter, and a timeline
\* 1 or -1 of one board emerging from one of its first two boards; the two initial
\* timelines -0.5 and +0.5; the files of 2x3 boards
GameRaws ==
    PawnGameRaws \cup
    {GameRawNew(<<TimelineRawNew(0, states, 0, None)>>, <<0>>) :
        states \in SeqsUpTo(RawBoards, MaxStates)}
    \cup {GameRawNew(<<TimelineRawNew(0, br[1], 0, None),
                       TimelineRawNew(br[2], <<br[3]>>, br[4] + 1, Some(0))>>, <<0>>) :
            br \in {q \in SeqsUpTo(RawBoards, MaxStates - 1) \X {2, -2} \X RawBoards \X {0, 1} :
                        q[4] < Len(q[1])}}
    \cup {GameRawNew(<<TimelineRawNew(-1, <<bb[1]>>, 0, None),
                       TimelineRawNew(1, <<bb[2]>>, 0, None)>>, <<-1, 1>>) :
            bb \in RawBoards \X RawBoards}

InitParse ==
    /\ game_raw \in GameRaws
    /\ game = None
    /\ partial_game = no_partial_game
    /\ piece = None
    /\ iter = None
    /\ yielded = <<>>
    /\ last = None
    /\ validated = None
    /\ fens = <<>>
    /\ moveset = None
    /\ filter = None
    /\ clock = 0
    /\ calls = <<>>
    /\ arg = None
    /\ ret = None
    /\ pc = "raw"

Parse ==
    /\ pc = "raw"
    /\ game' = parse(game_raw)
    /\ pc' = IF "tag" \notin DOMAIN parse(game_raw) THEN "parsed"
             ELSE IF parse(game_raw) = None THEN "none" ELSE "panic"
    /\ UNCHANGED <<partial_game, piece, iter, yielded, last, validated, fens, moveset>>
    /\ UNCHANGED <<parseVars, timeVars, fnVars>>

NextParse == Parse

SpecParse == InitParse /\ [][NextParse]_vars

\* parse returned Some(game)
IsParsed == pc = "parsed"
\* the board the walk came from: the previous T of the layer, or the board the
\* timeline emerges from; None for an initial board
WalkedFrom(lt) ==
    LET tl == CHOOSE x \in Timelines : x.index = lt[1]
    IN  IF lt[2] > tl.first_board THEN Some(<<lt[1], lt[2] - 1>>)
        ELSE tl.emerges_from

RECURSIVE WalkedThrough(_)
\* the boards of the walk before lt, back to the initial board
WalkedThrough(lt) ==
    IF WalkedFrom(lt) = None THEN {}
    ELSE {WalkedFrom(lt).val} \cup WalkedThrough(WalkedFrom(lt).val)

SameKindAndColour(a, b) ==
    \/ is_blank(a) /\ is_blank(b)
    \/ is_piece(a) /\ is_piece(b) /\ a.kind = b.kind /\ a.white = b.white

MaxRawCode == 50
\* the indices of a file, in halves: -MaxFenL - 0.5 .. MaxFenL + 0.5
HalfIndices == (-2 * MaxFenL - 1)..(2 * MaxFenL + 1)
IsHalfIndex(h) == h % 2 = 1
\* the labels of a PGN: "-0", "+0", "n", "-n" and "+n"
LayerLabels == FenLayers \cup {"+" \o ToString(n) : n \in 1..MaxFenL}
\* the label of the half index h: -0.5 is "-0", +0.5 is "+0", -1.5 is "-1", +1.5 is "+1"
LabelOfHalf(h) == IF h < 0 THEN "-" \o ToString((-h) \div 2) ELSE "+" \o ToString(h \div 2)

\* the turn numbers of a PGN, and a label that is no number
TurnLabels == {ToString(n) : n \in 1..(MaxFenTurn + 2)} \cup {"x"}

\* de_time
de_time(raw, active_player) ==
    IF IsNumeral(raw)
    THEN Ok((FromStr(raw) - 1) * 2 - (IF active_player THEN 0 ELSE 1))
    ELSE Err("InvalidT")

InitDecode ==
    /\ arg \in [fn : {"de_layer"}, a : HalfIndices, b : HalfIndices, even_timelines : BOOLEAN]
               \cup [fn : {"de_str_layer"}, a : LayerLabels, b : LayerLabels,
                     even_timelines : BOOLEAN]
               \cup [fn : {"de_piece"}, raw : 0..MaxRawCode]
               \cup [fn : {"de_time"}, raw : TurnLabels, active_player : BOOLEAN]
    /\ ret = None
    /\ game = None
    /\ partial_game = no_partial_game
    /\ piece = None
    /\ iter = None
    /\ yielded = <<>>
    /\ last = None
    /\ validated = None
    /\ fens = <<>>
    /\ moveset = None
    /\ game_raw = None
    /\ filter = None
    /\ clock = 0
    /\ calls = <<>>
    /\ pc = "call"

DeLayer ==
    /\ pc = "call"
    /\ arg.fn = "de_layer"
    /\ ret' = [a |-> de_layer(arg.a, arg.even_timelines),
               b |-> de_layer(arg.b, arg.even_timelines)]
    /\ pc' = "returned"
    /\ UNCHANGED <<game, partial_game, piece, iter, yielded, last, validated, fens, moveset>>
    /\ UNCHANGED <<parseVars, timeVars, arg>>

DeStrLayer ==
    /\ pc = "call"
    /\ arg.fn = "de_str_layer"
    /\ ret' = [a |-> de_str_layer(arg.a, arg.even_timelines),
               b |-> de_str_layer(arg.b, arg.even_timelines)]
    /\ pc' = "returned"
    /\ UNCHANGED <<game, partial_game, piece, iter, yielded, last, validated, fens, moveset>>
    /\ UNCHANGED <<parseVars, timeVars, arg>>

DePiece ==
    /\ pc = "call"
    /\ arg.fn = "de_piece"
    /\ ret' = de_piece(arg.raw)
    /\ pc' = "returned"
    /\ UNCHANGED <<game, partial_game, piece, iter, yielded, last, validated, fens, moveset>>
    /\ UNCHANGED <<parseVars, timeVars, arg>>

\* de_time on a turn number, and parse_fen on a board of the same turn and colour
DeTime ==
    /\ pc = "call"
    /\ arg.fn = "de_time"
    /\ ret' = [de_time |-> de_time(arg.raw, arg.active_player),
               parse_fen |-> parse_fen(
                   [position |-> EmptyPosition, l |-> "0", turn |-> arg.raw,
                    color |-> IF arg.active_player THEN "w" ELSE "b"],
                   GameNew(Dim, Dim, FALSE, <<TimelineInfoNew(0, None, 0, 0)>>, <<>>))]
    /\ pc' = "returned"
    /\ UNCHANGED <<game, partial_game, piece, iter, yielded, last, validated, fens, moveset>>
    /\ UNCHANGED <<parseVars, timeVars, arg>>

NextDecode == DeLayer \/ DeStrLayer \/ DePiece \/ DeTime

SpecDecode == InitDecode /\ [][NextDecode]_vars

\* C13: with even_timelines, de_layer maps -0.5 to -1, -1.5 to -2, ... and +0.5 to 0,
\* +1.5 to 1, ...; without, it maps the integers to themselves; an index is >= 0
\* exactly when its layer is, and distinct indices of one game (all halves, or all
\* integers) have distinct layers; de_str_layer maps "-0" to -1, "+0" to 0, and with
\* even_timelines "-n" to -n-1 and "+n" to n, the layer de_layer gives that index.
C13_LayerDecoding ==
    /\ (pc = "returned" /\ arg.fn = "de_layer") =>
          /\ (arg.even_timelines /\ IsHalfIndex(arg.a)) => ret.a * 2 = arg.a - 1
          /\ (~arg.even_timelines /\ ~IsHalfIndex(arg.a)) => ret.a * 2 = arg.a
          /\ (arg.even_timelines = IsHalfIndex(arg.a)) => ((arg.a >= 0) <=> (ret.a >= 0))
          /\ (/\ arg.even_timelines = IsHalfIndex(arg.a)
              /\ arg.even_timelines = IsHalfIndex(arg.b)
              /\ arg.a # arg.b) => ret.a # ret.b
    /\ (pc = "returned" /\ arg.fn = "de_str_layer") =>
          /\ arg.a = "-0" => ret.a = -1
          /\ arg.a = "+0" => ret.a = 0
          /\ \A n \in 1..MaxFenL :
                /\ (arg.even_timelines /\ arg.a = ToString(-n)) => ret.a = -n - 1
                /\ (arg.even_timelines /\ arg.a = "+" \o ToString(n)) => ret.a = n
                /\ (~arg.even_timelines /\ arg.a = ToString(-n)) => ret.a = -n
          /\ \A h \in HalfIndices :
                (arg.even_timelines /\ IsHalfIndex(h) /\ arg.a = LabelOfHalf(h)
                    /\ LabelOfHalf(h) \in LayerLabels)
                => ret.a = de_layer(h, TRUE)

\* -1.5 and +0.5 decoded in a game of even timelines
C13_Witness ==
    /\ pc = "returned" /\ arg.fn = "de_layer" /\ arg.even_timelines
    /\ arg.a = -3 /\ ret.a = -2
    /\ arg.b = 1 /\ ret.b = 0

\* C14: de_piece is total: the codes 1..12 are the white Pawn, Knight, Bishop, Rook,
\* Queen, King, Unicorn, Dragon, Princess, Brawn, CommonKing, RoyalQueen in that
\* order, the code n + 32 is the black piece of the kind of the code n, every other
\* value (0 included) is Blank, and the result is never Void.
C14_DePieceTotal ==
    (pc = "returned" /\ arg.fn = "de_piece") =>
      LET kinds == << "Pawn", "Knight", "Bishop", "Rook", "Queen", "King", "Unicorn",
                      "Dragon", "Princess", "Brawn", "CommonKing", "RoyalQueen" >>
      IN  /\ ret.tag \in {"Piece", "Blank"}
          /\ arg.raw \in 1..12 =>
                ret.tag = "Piece" /\ ret.white /\ ret.kind = kinds[arg.raw]
          /\ arg.raw \in 33..44 =>
                ret.tag = "Piece" /\ ~ret.white /\ ret.kind = kinds[arg.raw - 32]
          /\ arg.raw \notin (1..12) \cup (33..44) => ret = Blank

\* the code 44 decoded: the black RoyalQueen
C14_Witness ==
    /\ pc = "returned" /\ arg.fn = "de_piece" /\ arg.raw = 44
    /\ ret.tag = "Piece" /\ ret.kind = "RoyalQueen" /\ ~ret.white

(***************************************************************************)
(* parse_fen on its own: one FEN of a 2x2 game.                            *)
(***************************************************************************)
FenWidth == 2
FenHeight == 2
\* the chars of a row: digits, a white and a black pawn, the unmoved mark, and a
\* char that is no piece letter
RowChars == {"1", "2", "P", "p", "*", "x"}
\* fen: one or two rows of up to two chars (and two longer rows), a numeric or a
\* non-numeric layer and turn
FenInputs ==
    LET rows == SeqsUpTo(RowChars, 2) \cup {<<"1", "2", "*">>, <<"P", "*", "1">>}
    IN  [position : SeqsUpTo(rows, 2) \ {<<>>},
         l : {"0", "x"}, turn : {"1", "x"}, color : {"w", "b"}]
FenGame == GameNew(FenWidth, FenHeight, FALSE, <<TimelineInfoNew(0, None, 0, 0)>>, <<>>)

InitParseFen ==
    /\ game = FenGame
    /\ partial_game = no_partial_game
    /\ piece = None /\ iter = None /\ yielded = <<>> /\ last = None
    /\ validated = None /\ fens = <<>> /\ moveset = None
    /\ game_raw = None /\ filter = None /\ clock = 0 /\ calls = <<>>
    /\ arg \in FenInputs
    /\ ret = None
    /\ pc = "call"

\* let result = parse_fen(fen, &game)
ParseFen ==
    /\ pc = "call"
    /\ ret' = parse_fen(arg, game)
    /\ pc' = "returned"
    /\ UNCHANGED <<game, partial_game, piece, iter, yielded, last, validated, fens, moveset>>
    /\ UNCHANGED <<parseVars, timeVars, arg>>

SpecParseFen == InitParseFen /\ [][ParseFen]_vars

\* C15: parse_fen returns a board of W*H tiles, none of them Void, or one of the
\* errors FENDimensionY, FENDimensionX, FENUnexpected, InvalidL; it never faults
C15_ParseFenNeverFaults ==
    pc = "returned" =>
        \/ /\ ret.tag = "Ok"
           /\ Len(ret.val.pieces) = FenWidth * FenHeight
           /\ \A i \in DOMAIN ret.val.pieces : ret.val.pieces[i].tag # "Void"
        \/ /\ ret.tag = "Err"
           /\ ret.err \in {"FENDimensionY", "FENDimensionX", "FENUnexpected", "InvalidL"}

(***************************************************************************)
(* TimedFilter and SigmaFilter (prelude/time.rs).  Time is a clock of      *)
(* ticks; it advances while the consumer holds the filter between two      *)
(* calls, inside the underlying iterator's next() and inside the           *)
(* condition.  A call of next() goes through the positions "loop" (top of  *)
(* the loop), "pulling" (inside iterator.next()) and "cond" (inside the    *)
(* condition) and comes back to "idle".                                    *)
(***************************************************************************)
MaxClock == 4
MaxItems == 2
MaxDuration == 2

\* the items of the underlying iterator; the condition keeps the items that are not 0
Items == {0, 1}
condition(item) == item # 0

\* TimedFilter::new and SigmaFilter::new, with the history of the run: time spent
\* in the iterator and in the condition, the time of the first call, and for the
\* call under way whether the budget was exceeded and what size_hint said when it began
FilterNew(kind, iterator, duration) ==
    [kind |-> kind, iterator |-> iterator, duration |-> duration,
     start |-> None, sigma |-> 0,
     call_start |-> 0, item |-> None,
     first_call |-> None, in_iterator |-> 0, in_condition |-> 0,
     exceeded |-> FALSE, pulls |-> 0, hint |-> None]

\* Instant::elapsed
elapsed(instant, now) == now - instant

\* the test at the top of the loop, this call's elapsed time alone for SigmaFilter
over_budget_ThisCallOnly(f, now) ==
    IF f.kind = "timed"
    THEN elapsed(f.start.val, now) > f.duration
    ELSE elapsed(f.call_start, now) > f.duration

\* the test at the top of the loop
over_budget(f, now) ==
    IF f.kind = "timed"
    THEN elapsed(f.start.val, now) > f.duration
    ELSE f.sigma + elapsed(f.call_start, now) > f.duration

\* the budget as the filter's fields tell it between two calls
BudgetExceeded(f, now) ==
    IF f.kind = "timed"
    THEN f.start # None /\ elapsed(f.start.val, now) > f.duration
    ELSE f.sigma > f.duration

\* TimedFilter::remaining once start is set
remaining(f, now) ==
    IF elapsed(f.start.val, now) > f.duration THEN 0
    ELSE f.duration - elapsed(f.start.val, now)

\* the upper bound of size_hint; the underlying iterator's is the number of its items
size_hint(f, now) ==
    IF f.kind = "timed"
    THEN IF f.start # None /\ remaining(f, now) = 0
         THEN Some(0) ELSE Some(Len(f.iterator))
    ELSE IF f.sigma > f.duration
         THEN Some(0) ELSE Some(Len(f.iterator))

InitFilter ==
    /\ game = GameNew(Dim, Dim, FALSE, <<>>, <<>>)
    /\ partial_game = no_partial_game
    /\ piece = None /\ iter = None /\ yielded = <<>> /\ last = None
    /\ validated = None /\ fens = <<>> /\ moveset = None
    /\ game_raw = None /\ ret = None
    /\ \E kind \in {"timed", "sigma"}, iterator \in SeqsUpTo(Items, MaxItems) \cup {<<>>},
          duration \in 0..MaxDuration :
            /\ filter = FilterNew(kind, iterator, duration)
            /\ arg = iterator
    /\ clock = 0
    /\ calls = <<>>
    /\ pc = "idle"

\* time passes: in the consumer, in iterator.next(), in the condition
Elapse ==
    /\ pc \in {"idle", "pulling", "cond"}
    /\ clock < MaxClock
    /\ clock' = clock + 1
    /\ filter' = [filter EXCEPT
            !.in_iterator = @ + (IF pc = "pulling" THEN 1 ELSE 0),
            !.in_condition = @ + (IF pc = "cond" THEN 1 ELSE 0)]
    /\ UNCHANGED <<game, partial_game, piece, iter, yielded, last, validated, fens,
                   moveset, pc, calls>>
    /\ UNCHANGED <<parseVars, fnVars>>

\* next() returns res: SigmaFilter adds the call's elapsed time to sigma
Return(f, res) ==
    /\ filter' = [f EXCEPT
            !.sigma = IF f.kind = "sigma" THEN @ + elapsed(f.call_start, clock) ELSE @,
            !.item = None]
    /\ calls' = Append(calls,
            [res |-> res, at |-> clock, exceeded |-> f.exceeded, pulls |-> f.pulls,
             hint |-> f.hint])
    /\ pc' = "idle"

\* the consumer calls next(): TimedFilter sets start on the first call, SigmaFilter
\* takes the start of the call
CallNext ==
    /\ pc = "idle"
    /\ Len(calls) < MaxItems + 2
    /\ filter' = [filter EXCEPT
            !.start = IF filter.kind = "timed" /\ filter.start = None
                      THEN Some(clock) ELSE @,
            !.call_start = clock,
            !.first_call = IF @ = None THEN Some(clock) ELSE @,
            !.exceeded = BudgetExceeded(filter, clock),
            !.hint = size_hint(filter, clock),
            !.pulls = 0]
    /\ pc' = "loop"
    /\ UNCHANGED <<game, partial_game, piece, iter, yielded, last, validated, fens,
                   moveset, clock, calls>>
    /\ UNCHANGED <<parseVars, fnVars>>

\* the top of the loop: out of budget returns None, else iterator.next() is entered
LoopTest ==
    /\ pc = "loop"
    /\ IF over_budget(filter, clock)
       THEN Return(filter, None)
       ELSE /\ pc' = "pulling"
            /\ filter' = [filter EXCEPT !.pulls = @ + 1]
            /\ UNCHANGED calls
    /\ UNCHANGED <<game, partial_game, piece, iter, yielded, last, validated, fens,
                   moveset, clock>>
    /\ UNCHANGED <<parseVars, fnVars>>

\* iterator.next() returns: None ends the call, Some(item) enters the condition
Pull ==
    /\ pc = "pulling"
    /\ IF filter.iterator = <<>>
       THEN Return(filter, None)
       ELSE /\ filter' = [filter EXCEPT !.iterator = Tail(@),
                                        !.item = Some(Head(filter.iterator))]
            /\ pc' = "cond"
            /\ UNCHANGED calls
    /\ UNCHANGED <<game, partial_game, piece, iter, yielded, last, validated, fens,
                   moveset, clock>>
    /\ UNCHANGED <<parseVars, fnVars>>

\* Condition returning the item whatever the condition says
Condition_ReturnsRejected ==
    /\ pc = "cond"
    /\ Return(filter, filter.item)
    /\ UNCHANGED <<game, partial_game, piece, iter, yielded, last, validated, fens,
                   moveset, clock>>
    /\ UNCHANGED <<parseVars, fnVars>>

\* the condition returns: true returns the item, false goes round the loop
Condition ==
    /\ pc = "cond"
    /\ IF condition(filter.item.val)
       THEN Return(filter, filter.item)
       ELSE /\ filter' = [filter EXCEPT !.item = None]
            /\ pc' = "loop"
            /\ UNCHANGED calls
    /\ UNCHANGED <<game, partial_game, piece, iter, yielded, last, validated, fens,
                   moveset, clock>>
    /\ UNCHANGED <<parseVars, fnVars>>

NextFilter == Elapse \/ CallNext \/ LoopTest \/ Pull \/ Condition
SpecFilter == InitFilter /\ [][NextFilter]_vars

\* C16: TimedFilter's start is unset until the first call of next() and is the time
\* of that call afterwards, and every item is returned while the time elapsed since
\* the first call does not exceed duration
C16_TimedItemsWithinDuration ==
    filter.kind = "timed" =>
        /\ filter.start = filter.first_call
        /\ \A i \in DOMAIN calls :
               calls[i].res # None =>
                   elapsed(filter.first_call.val, calls[i].at) <= filter.duration

\* C17: between two calls SigmaFilter's sigma is the time spent inside the condition
\* alone, neither the iterator's nor the consumer's time
C17_SigmaIsConditionTime ==
    (filter.kind = "sigma" /\ pc = "idle") => filter.sigma = filter.in_condition

\* C18: a call of next() made once the budget is exceeded returns None and pulls
\* nothing from the underlying iterator
C18_NoneOnceExceeded ==
    /\ \A i \in DOMAIN calls :
           calls[i].exceeded => (calls[i].res = None /\ calls[i].pulls = 0)
    /\ (pc # "idle" /\ filter.exceeded) => (pc = "loop" /\ filter.pulls = 0)

\* a call made after the budget was exceeded has returned, for either filter, with
\* items left in the underlying iterator
C18_Witness ==
    /\ pc = "idle"
    /\ calls # <<>>
    /\ calls[Len(calls)].exceeded
    /\ filter.iterator # <<>>
    /\ filter.kind = "sigma"
    /\ filter.sigma > filter.duration

(***************************************************************************)
(* The generator on a game of one board: a lone Rook.                      *)
(***************************************************************************)
MaxSide == 4
\* the standard board
StandardSize == 8
\* (width, height) of the board
BoardSizes == ((1..MaxSide) \X (1..MaxSide)) \cup {<<StandardSize, StandardSize>>}

\* a game of the single board (0, 0), Blank but for the piece p on (x, y)
SingleBoardGame(w, h, p, x, y) ==
    LET g == GameNew(w, h, FALSE, <<TimelineInfoNew(0, None, 0, 0)>>, <<>>)
        board == BoardNew(w, h, 0, 0,
                     [i \in 1..(w * h) |-> IF i = y * w + x + 1 THEN p ELSE Blank],
                     None)
    IN  [g EXCEPT !.boards = (<<0, 0>> :> board)]

InitRook ==
    \E size \in BoardSizes, white \in BOOLEAN :
      \E x \in 0..(size[1] - 1), y \in 0..(size[2] - 1) :
        /\ game = SingleBoardGame(size[1], size[2], PieceNew("Rook", white, FALSE), x, y)
        /\ partial_game = no_partial_game
        /\ piece = PiecePositionNew(PieceNew("Rook", white, FALSE), Coords(0, 0, x, y))
        /\ iter = None /\ yielded = <<>> /\ last = None /\ validated = None
        /\ fens = <<>> /\ moveset = None
        /\ game_raw = None /\ filter = None /\ clock = 0 /\ calls = <<>>
        /\ arg = None /\ ret = None
        /\ pc = "start"

SpecRook == InitRook /\ [][Next]_vars

\* a lone Rook on the only board of the game, its iterator drained
LoneRookDone ==
    /\ pc = "done"
    /\ piece.piece.kind = "Rook"
    /\ DOMAIN game.boards = {<<0, 0>>}
    /\ \A i \in DOMAIN game.boards[<<0, 0>>].pieces :
           is_piece(game.boards[<<0, 0>>].pieces[i])
               => i = piece.coords[4] * game.width + piece.coords[3] + 1

\* C19: a lone Rook on an empty WxH board yields exactly (W-1)+(H-1) destinations,
\* each once and each on that board: 14 on the 8x8 board
C19_LoneRookDestinations ==
    LoneRookDone =>
        /\ Len(yielded) = (game.width - 1) + (game.height - 1)
        /\ Cardinality(YieldedTo) = Len(yielded)
        /\ \A to \in YieldedTo : non_physical(to) = <<0, 0>>
        /\ (game.width = StandardSize /\ game.height = StandardSize)
               => Cardinality(YieldedTo) = 14

\* the Rook on a central square of the 8x8 board has yielded its 14 destinations
C19_Witness ==
    /\ LoneRookDone
    /\ game.width = StandardSize /\ game.height = StandardSize
    /\ piece.coords = Coords(0, 0, 3, 4)
    /\ Len(yielded) = 14

(***************************************************************************)
(* PERMUTATIONS read entry by entry: PERMUTATIONS[index][k].                *)
(***************************************************************************)
\* the tables in the order of the code: Knight, Rook, Bishop, Unicorn, Dragon
TableSizes == <<48, 8, 24, 32, 16>>
GroupSizes == <<12, 4, 6, 4, 1>>

InitPermutations ==
    /\ game = GameNew(Dim, Dim, FALSE, <<>>, <<>>)
    /\ partial_game = no_partial_game
    /\ piece = None /\ iter = None /\ yielded = <<>> /\ last = None
    /\ validated = None /\ fens = <<>> /\ moveset = None
    /\ game_raw = None /\ filter = None /\ clock = 0 /\ calls = <<>>
    /\ \E index \in 0..(Len(PERMUTATIONS) - 1) :
         \E k \in 0..(Len(PERMUTATIONS[index + 1]) - 1) :
            arg = [fn |-> "PERMUTATIONS", index |-> index, k |-> k]
    /\ ret = None
    /\ pc = "call"

\* PERMUTATIONS[index][k]
PermutationAt ==
    /\ pc = "call"
    /\ ret' = PERMUTATIONS[arg.index + 1][arg.k + 1]
    /\ pc' = "returned"
    /\ UNCHANGED <<game, partial_game, piece, iter, yielded, last, validated, fens, moveset>>
    /\ UNCHANGED <<parseVars, timeVars, arg>>

SpecPermutations == InitPermutations /\ [][PermutationAt]_vars

\* C20: the tables are built from 12, 4, 6, 4 and 1 generator tuples and hold 48, 8,
\* 24, 32 and 16 directions; a table holds no direction twice and holds the negation
\* of each of its directions
C20_PermutationTables ==
    /\ Len(PermutationGroups) = 5 /\ Len(PERMUTATIONS) = 5
    /\ \A i \in 1..5 :
          /\ Len(PermutationGroups[i].group) = GroupSizes[i]
          /\ Len(PERMUTATIONS[i]) = TableSizes[i]
    /\ pc = "returned" =>
          LET table == PERMUTATIONS[arg.index + 1]
          IN  /\ \A j \in DOMAIN table : table[j] = ret => j = arg.k + 1
              /\ \E j \in DOMAIN table : table[j] = CoordsMul(ret, -1)

\* the last entry of the Knight table has been read
C20_Witness ==
    /\ pc = "returned"
    /\ arg.index = 0
    /\ arg.k = 47
    /\ ret = <<0, -1, 0, -2>>

(***************************************************************************)
(* The en_passant marks of a parsed game.                                  *)
(***************************************************************************)
\* the board at lt and the board the walk came to it from
StepsOfWalk == {lt \in DOMAIN game.boards : WalkedFrom(lt) # None}
PrevBoard(lt) == game.boards[WalkedFrom(lt).val]
\* the square of the board at index y * width + x + 1
SquareOf(board, xy) == BoardGet(board, xy[1], xy[2])
\* the square a piece of that colour stands on after passing over xy, and the one
\* it left for a two-square advance
AheadOf(xy, white) == IF white THEN <<xy[1], xy[2] + 1>> ELSE <<xy[1], xy[2] - 1>>
BehindOf(xy, white) == IF white THEN <<xy[1], xy[2] - 1>> ELSE <<xy[1], xy[2] + 1>>
IsPawnLike(tile) == is_piece(tile) /\ tile.kind \in {"Pawn", "Brawn"}

\* the half-move to the board at lt put a pawn-like piece in front of the square xy,
\* which was not held by a piece on the previous board
PutsPawnAheadOf(lt, xy) ==
    \E white \in BOOLEAN :
        /\ IsPawnLike(SquareOf(game.boards[lt], AheadOf(xy, white)))
        /\ SquareOf(game.boards[lt], AheadOf(xy, white)).white = white
        /\ ~SameKindAndColour(SquareOf(game.boards[lt], AheadOf(xy, white)),
                              SquareOf(PrevBoard(lt), AheadOf(xy, white)))
        /\ ~is_piece(SquareOf(PrevBoard(lt), xy))

\* the half-move to the board at lt was a two-square advance over xy: the piece now
\* in front of xy stood behind xy on the previous board and has left that square
AdvancedTwoOver(lt, xy) ==
    \E white \in BOOLEAN :
        /\ IsPawnLike(SquareOf(game.boards[lt], AheadOf(xy, white)))
        /\ SquareOf(game.boards[lt], AheadOf(xy, white)).white = white
        /\ ~is_piece(SquareOf(PrevBoard(lt), AheadOf(xy, white)))
        /\ ~is_piece(SquareOf(PrevBoard(lt), xy))
        /\ SameKindAndColour(SquareOf(PrevBoard(lt), BehindOf(xy, white)),
                             SquareOf(game.boards[lt], AheadOf(xy, white)))
        /\ ~is_piece(SquareOf(game.boards[lt], BehindOf(xy, white)))

\* C21: a mark is found only on the board of the half-move that made it: an initial
\* board has none, and a later board has one only if its own half-move put a
\* pawn-like piece in front of the marked square; a board whose pawns stand as on
\* the previous board has none, whatever the previous board's mark
C21_MarkOnlyOnItsBoard ==
    IsParsed =>
        /\ \A lt \in DOMAIN game.boards :
              WalkedFrom(lt) = None => game.boards[lt].en_passant = None
        /\ \A lt \in StepsOfWalk :
              game.boards[lt].en_passant # None
                  => PutsPawnAheadOf(lt, game.boards[lt].en_passant.val)
        /\ \A lt \in StepsOfWalk :
              (\A i \in DOMAIN game.boards[lt].pieces :
                   SameKindAndColour(game.boards[lt].pieces[i], PrevBoard(lt).pieces[i]))
                  => game.boards[lt].en_passant = None

\* the white Pawn advanced by two, then the black Pawn by one: the first board is
\* marked, the second is not
C21_Witness ==
    /\ IsParsed
    /\ game.width = 2
    /\ \E lt \in StepsOfWalk :
          /\ PrevBoard(lt).en_passant = Some(<<0, 1>>)
          /\ game.boards[lt].en_passant = None
          /\ IsPawnLike(SquareOf(game.boards[lt], <<1, 1>>))
          /\ ~is_piece(SquareOf(PrevBoard(lt), <<1, 1>>))

\* C26: a board is marked only when its half-move was a two-square advance of a
\* pawn-like piece over the marked square
C26_MarkOnlyAfterTwoSquareAdvance ==
    IsParsed =>
        \A lt \in DOMAIN game.boards :
            game.boards[lt].en_passant # None
                => /\ WalkedFrom(lt) # None
                   /\ AdvancedTwoOver(lt, game.boards[lt].en_passant.val)

(***************************************************************************)
(* The filters against Iterator::filter.  arg holds the underlying         *)
(* iterator as it was given to filter_timed or filter_sigma.               *)
(***************************************************************************)
\* the items the calls of next() have returned so far, in order
ReturnedItems ==
    LET some(call) == call.res # None
        returned == SelectSeq(calls, some)
    IN  [i \in DOMAIN returned |-> returned[i].res.val]
\* iterator.filter(condition) on the same underlying iterator
Filtered == SelectSeq(arg, condition)

\* C22: the items returned so far are a prefix of iterator.filter(condition), and
\* they are all of it once next() has returned None with the budget never exceeded
C22_PrefixOfFilter ==
    /\ Len(ReturnedItems) <= Len(Filtered)
    /\ ReturnedItems = SubSeq(Filtered, 1, Len(ReturnedItems))
    /\ (/\ pc = "idle"
        /\ calls # <<>>
        /\ calls[Len(calls)].res = None
        /\ ~BudgetExceeded(filter, clock))
           => ReturnedItems = Filtered

\* a filter has returned an item and then stopped over budget with an item that
\* passes the condition left in the underlying iterator
C22_Witness ==
    /\ pc = "idle"
    /\ arg = <<1, 1>>
    /\ ReturnedItems = <<1>>
    /\ calls[Len(calls)].res = None
    /\ filter.iterator = <<1>>

\* C30: a call of next() made at an instant when size_hint reports the upper bound
\* 0 returns None, and before the first call TimedFilter reports the upper bound of
\* the underlying iterator
C30_SizeHintAgreesWithNext ==
    /\ \A i \in DOMAIN calls : calls[i].hint = Some(0) => calls[i].res = None
    /\ (filter.kind = "timed" /\ filter.first_call = None)
           => size_hint(filter, clock) = Some(Len(filter.iterator))

\* C23: for the turn number n, de_time and parse_fen give the same T, 2(n-1) for
\* white and 2(n-1)+1 for black, never negative for n >= 1
C23_TimeDecodersAgree ==
    (pc = "returned" /\ arg.fn = "de_time" /\ IsNumeral(arg.raw) /\ FromStr(arg.raw) >= 1)
        => /\ ret.de_time.tag = "Ok"
           /\ ret.parse_fen.tag = "Ok"
           /\ ret.de_time.val = ret.parse_fen.val.t
           /\ ret.de_time.val
                = 2 * (FromStr(arg.raw) - 1) + (IF arg.active_player THEN 0 ELSE 1)
           /\ ret.de_time.val >= 0

(***************************************************************************)
(* parse_pgn: the choice of the starting position from the Board header    *)
(* and the variants directory.  A header value and a file name are         *)
(* sequences of chars.                                                     *)
(***************************************************************************)
\* the values of the Board header: "custom", "Custom", "std", "Turn-Zero", "std2"
BoardNames ==
    {<<"c", "u", "s", "t", "o", "m">>, <<"C", "u", "s", "t", "o", "m">>,
     <<"s", "t", "d">>, <<"T", "u", "r", "n", "-", "Z", "e", "r", "o">>,
     <<"s", "t", "d", "2">>}
\* the directories of variants the names can be looked up in
VariantNames == {<<"s", "t", "d">>, <<"T", "u", "r", "n", "-", "Z", "e", "r", "o">>}
\* a variants directory: whether fs::read_dir succeeds, the directories it lists
\* and those of them that hold a readable variant.5dpgn
VariantDirs ==
    {d \in [readable : BOOLEAN, entries : SUBSET VariantNames, with_file : SUBSET VariantNames] :
        d.with_file \subseteq d.entries}
\* the arguments of parse_pgn: the Board header of raw, if any, and variants
PgnInputs ==
    [board : {None} \cup {Some(n) : n \in BoardNames},
     variants : {None} \cup {Some(d) : d \in VariantDirs}]

\* parse_pgn up to the starting position: "custom" when the FEN headers of raw are
\* to be read, "variant" when those of the variant file are, else the error or the
\* abort
parse_pgn_board(board, variants) ==
    LET lower == <<"a", "b", "c", "d", "e", "f", "g", "h", "i", "j", "k", "l", "m",
                   "n", "o", "p", "q", "r", "s", "t", "u", "v", "w", "x", "y", "z">>
        upper == <<"A", "B", "C", "D", "E", "F", "G", "H", "I", "J", "K", "L", "M",
                   "N", "O", "P", "Q", "R", "S", "T", "U", "V", "W", "X", "Y", "Z">>
        letters == {lower[i] : i \in DOMAIN lower} \cup {upper[i] : i \in DOMAIN upper}
        to_lowercase(x) ==
            [i \in DOMAIN x |->
                IF \E k \in DOMAIN upper : upper[k] = x[i]
                THEN lower[CHOOSE k \in DOMAIN upper : upper[k] = x[i]]
                ELSE x[i]]
        \* variant_regexp: ^[a-zA-Z \-]+$
        is_match(x) == x # <<>> /\ \A i \in DOMAIN x : x[i] \in letters \cup {" ", "-"}
    IN  IF board # None /\ to_lowercase(board.val) = <<"c", "u", "s", "t", "o", "m">>
        THEN Ok("custom")
        ELSE IF variants # None /\ board # None /\ is_match(board.val)
        THEN IF ~variants.val.readable THEN Err("InvalidVariant")
             ELSE IF board.val \notin variants.val.entries THEN Err("InvalidVariant")
             ELSE IF board.val \notin variants.val.with_file
             THEN Panic("called unwrap() on an Err value")
             ELSE Ok("variant")
        ELSE Panic("not implemented")

InitVariant ==
    /\ game = GameNew(Dim, Dim, FALSE, <<TimelineInfoNew(0, None, 0, 0)>>, <<>>)
    /\ partial_game = no_partial_game
    /\ piece = None /\ iter = None /\ yielded = <<>> /\ last = None
    /\ validated = None /\ fens = <<>> /\ moveset = None
    /\ game_raw = None /\ filter = None /\ clock = 0 /\ calls = <<>>
    /\ arg \in PgnInputs
    /\ ret = None
    /\ pc = "call"

ParsePgnBoard ==
    /\ pc = "call"
    /\ ret' = parse_pgn_board(arg.board, arg.variants)
    /\ pc' = "returned"
    /\ UNCHANGED <<game, partial_game, piece, iter, yielded, last, validated, fens, moveset>>
    /\ UNCHANGED <<parseVars, timeVars, arg>>

SpecVariant == InitVariant /\ [][ParsePgnBoard]_vars

\* the Board header names a variant that can be read: "custom", or a directory of
\* variants holding the variant file
Resolvable ==
    /\ arg.board # None
    /\ \/ arg.board.val \in {<<"c", "u", "s", "t", "o", "m">>, <<"C", "u", "s", "t", "o", "m">>}
       \/ /\ arg.variants # None
          /\ arg.variants.val.readable
          /\ arg.board.val \in arg.variants.val.with_file

\* C24: when the Board header names no resolvable variant parse_pgn returns
\* Err(InvalidVariant); it never aborts
C24_InvalidVariantNeverAborts ==
    (pc = "returned" /\ ~Resolvable)
        => (ret.tag = "Err" /\ ret.err = "InvalidVariant")

(***************************************************************************)
(* parse_moves: the loop over the tokens of the move text.  A token is     *)
(* given by the groups the regular expressions capture from it.            *)
(***************************************************************************)
\* the files 'a' .. 'w'
FileLetters ==
    <<"a", "b", "c", "d", "e", "f", "g", "h", "i", "j", "k", "l",
      "m", "n", "o", "p", "q", "r", "s", "t", "u", "v", "w">>

\* de_x
de_x(raw) ==
    IF \E i \in DOMAIN FileLetters : FileLetters[i] = raw
    THEN Ok((CHOOSE i \in DOMAIN FileLetters : FileLetters[i] = raw) - 1)
    ELSE Err("InvalidX")

\* de_y
de_y(raw) == IF IsNumeral(raw) THEN Ok(FromStr(raw) - 1) ELSE Err("InvalidY")

\* de_pgn_piece on the letters of the move tokens
de_pgn_piece(raw) ==
    CASE raw = "R" -> Ok("Rook")
      [] raw = "N" -> Ok("Knight")
      [] raw = "K" -> Ok("King")
      [] OTHER -> Err("InvalidPiece")

\* the (from_l, from_t) of a move token: its superphysical prefix, else the last
\* board of timeline 0
source_board(g, token) ==
    IF token.superphysical # None
    THEN <<de_str_layer(token.superphysical.val[1], g.info.even_timelines),
           de_time(token.superphysical.val[2], g.info.active_player).val>>
    ELSE <<0, get_timeline(g.info, 0).val.last_board>>

RECURSIVE IterAnyTo(_, _, _, _)
\* for mv in iterator { if mv.to.1 == to { return true } } false
IterAnyTo(g, pg, it, to) ==
    LET r == PieceMoveIterNext(g, pg, it)
    IN  IF r.res = None THEN FALSE
        ELSE IF r.res.to = to THEN TRUE
        ELSE IterAnyTo(g, pg, r.it, to)

\* the source square of a non-jump move whose file or rank is not given
resolve_source(g, pg, kind, from_l, from_t, from_x, from_y, to_x, to_y) ==
    LET board == IF <<from_t, from_l>> \in DOMAIN g.boards
                 THEN g.boards[<<from_t, from_l>>] ELSE None
        tile == PieceNew(kind, g.info.active_player, FALSE)
        xOf(i) == (i - 1) % g.width
        yOf(i) == (i - 1) \div g.width
        candidates ==
            {i \in DOMAIN board.pieces :
                /\ from_x = None \/ Some(xOf(i)) = from_x
                /\ from_y = None \/ Some(yOf(i)) = from_y
                /\ cmp_pieces(board.pieces[i], tile)}
        moves(i) ==
            generate_moves(g, pg,
                PiecePositionNew(board.pieces[i], Coords(from_l, from_t, xOf(i), yOf(i))))
        retained ==
            {i \in candidates :
                IterAnyTo(g, pg, moves(i), Coords(from_t, from_t, to_x, to_y))}
        only(S) == CHOOSE i \in S : TRUE
    IN  IF board = None THEN Err("NoBoard")
        ELSE IF Cardinality(candidates) = 1
        THEN Ok(<<xOf(only(candidates)), yOf(only(candidates))>>)
        ELSE IF \E i \in candidates : moves(i) = None
        THEN Panic("called unwrap() on a None value")
        ELSE IF Cardinality(retained) = 1
        THEN Ok(<<xOf(only(retained)), yOf(only(retained))>>)
        ELSE Err("Ambiguous")

\* one turn of the loop of parse_moves that also plays the move it has read
parse_token_PlaysMove(g, pg, token) ==
    CASE token.kind = "slash" ->
            [game |-> [g EXCEPT !.info.active_player = FALSE], res |-> None, mv |-> None]
      [] token.kind = "turn" ->
            [game |-> [g EXCEPT !.info.active_player = TRUE], res |-> None, mv |-> None]
      [] token.kind = "marker" -> [game |-> g, res |-> None, mv |-> None]
      [] token.kind \in {"jump", "nonjump"} ->
            [game |-> [g EXCEPT !.info.timelines_white[1].last_board = @ + 1,
                                !.info.active_player = ~@],
             res |-> None,
             mv |-> Some(MoveNew(g, pg, Coords(0, 0, 0, 0), Coords(0, 0, 0, 0)))]
      [] OTHER -> [game |-> g, res |-> Err("SyntaxError"), mv |-> None]

\* one turn of the loop of parse_moves: the game after it, the error it returns
\* with, if any, and the move it prints
parse_token(g, pg, token) ==
    LET go_on(mv) == [game |-> g, res |-> None, mv |-> mv]
        fail(e) == [game |-> g, res |-> e, mv |-> None]
        from_l == source_board(g, token)[1]
        from_t == source_board(g, token)[2]
    IN  CASE token.kind = "slash" ->
                [game |-> [g EXCEPT !.info.active_player = FALSE], res |-> None, mv |-> None]
          [] token.kind = "turn" ->
                [game |-> [g EXCEPT !.info.active_player = TRUE], res |-> None, mv |-> None]
          [] token.kind = "marker" -> go_on(None)
          [] token.kind = "jump" ->
                IF de_pgn_piece(token.piece).tag = "Err" THEN fail(de_pgn_piece(token.piece))
                ELSE go_on(Some(MoveNew(g, pg,
                        Coords(from_l, from_t, de_x(token.from_x.val).val, de_y(token.from_y.val).val),
                        Coords(de_str_layer(token.to[1], g.info.even_timelines),
                               de_time(token.to[2], g.info.active_player).val,
                               de_x(token.to_x).val, de_y(token.to_y).val))))
          [] token.kind = "nonjump" ->
                IF de_pgn_piece(token.piece).tag = "Err" THEN fail(de_pgn_piece(token.piece))
                ELSE
                LET kind == de_pgn_piece(token.piece).val
                    to_x == de_x(token.to_x).val
                    to_y == de_y(token.to_y).val
                    from_x == IF token.from_x = None THEN None
                              ELSE Some(de_x(token.from_x.val).val)
                    from_y == IF token.from_y = None THEN None
                              ELSE Some(de_y(token.from_y.val).val)
                    from == IF from_x = None \/ from_y = None
                            THEN resolve_source(g, pg, kind, from_l, from_t,
                                                from_x, from_y, to_x, to_y)
                            ELSE Ok(<<from_x.val, from_y.val>>)
                IN  IF from.tag # "Ok" THEN fail(from)
                    ELSE go_on(Some(MoveNew(g, pg,
                            Coords(from_l, from_t, from.val[1], from.val[2]),
                            Coords(from_l, from_t, to_x, to_y))))
          [] OTHER -> fail(Err("SyntaxError"))

\* the number of tokens of a move text
MaxTokens == 2
\* the number of boards of timeline 0
MaxTurns == 3

\* positions of a 3x2 board: white Rooks on a1 and c2; the same with a black
\* Knight on b2; one white Rook on a1 and a black one on c2
MovePositions ==
    LET R == PieceNew("Rook", TRUE, FALSE)
        r == PieceNew("Rook", FALSE, FALSE)
        n == PieceNew("Knight", FALSE, FALSE)
    IN  {<<R, Blank, Blank, Blank, Blank, R>>,
         <<R, Blank, Blank, Blank, n, R>>,
         <<R, Blank, Blank, Blank, Blank, r>>}

RECURSIVE WithBoards(_, _, _, _)
\* g after insert_board of the boards (l, 0) .. (l, n - 1) of one position
WithBoards(g, position, l, n) ==
    IF n = 0 THEN g
    ELSE insert_board(WithBoards(g, position, l, n - 1),
                      BoardNew(3, 2, l, n - 1, position, None))

\* the games parse_pgn hands to parse_moves: timeline 0 of 1..MaxTurns boards,
\* with or without a timeline 1 of one board
MoveGames ==
    {WithBoards(
        WithBoards(GameNew(3, 2, FALSE, <<TimelineInfoNew(0, None, 0, 0)>>, <<>>),
                   position, 0, n),
        position, 1, second)
     : position \in MovePositions, n \in 1..MaxTurns, second \in {0, 1}}

MoveTokens ==
    [kind : {"slash", "turn", "marker", "other"}]
    \cup [kind : {"nonjump"}, superphysical : {None, Some(<<"0", "2">>)}, piece : {"R"},
          from_x : {None}, from_y : {None}, to_x : {"a"}, to_y : {"2"}]
    \cup [kind : {"nonjump"}, superphysical : {None, Some(<<"0", "2">>)}, piece : {"R"},
          from_x : {Some("a")}, from_y : {None, Some("1")}, to_x : {"b"}, to_y : {"2"}]
    \cup [kind : {"jump"}, superphysical : {None}, piece : {"R"},
          from_x : {Some("a")}, from_y : {Some("1")}, to : {<<"1", "1">>},
          to_x : {"a"}, to_y : {"1"}]

InitMoves ==
    /\ game \in MoveGames
    /\ partial_game = no_partial_game
    /\ piece = None /\ iter = None /\ yielded = <<>> /\ last = None
    /\ validated = None /\ fens = <<>> /\ moveset = None
    /\ game_raw = None /\ filter = None /\ clock = 0 /\ calls = <<>>
    /\ \E raw \in SeqsUpTo(MoveTokens, MaxTokens) \cup {<<>>} :
          arg = [raw |-> raw, game |-> game]
    /\ ret = None
    /\ pc = "tokens"

\* one turn of `for token in regex.split(&raw)`, or the return after the last one
ParseMoves ==
    /\ pc = "tokens"
    /\ IF clock = Len(arg.raw)
       THEN /\ ret' = Ok(None)
            /\ pc' = "returned"
            /\ UNCHANGED <<game, clock, yielded>>
       ELSE LET r == parse_token(game, partial_game, arg.raw[clock + 1])
            IN  /\ game' = r.game
                /\ IF r.res = None
                   THEN /\ clock' = clock + 1
                        /\ yielded' = IF r.mv = None THEN yielded
                                      ELSE Append(yielded, r.mv.val)
                        /\ UNCHANGED <<ret, pc>>
                   ELSE /\ ret' = r.res
                        /\ pc' = "returned"
                        /\ UNCHANGED <<clock, yielded>>
    /\ UNCHANGED <<partial_game, piece, iter, last, validated, fens, moveset>>
    /\ UNCHANGED <<parseVars, filter, calls, arg>>

SpecMoves == InitMoves /\ [][ParseMoves]_vars

\* a non-jump move token that does not give both the file and the rank of its source
IsPartialNonJump(token) ==
    token.kind = "nonjump" /\ (token.from_x = None \/ token.from_y = None)

\* the pieces on the board at (L, T) = lt of the token's kind and of the active
\* colour, on the file and rank the token gives, that can move to the token's
\* destination on that board
MoversOf(token, lt) ==
    LET board == game.boards[lt]
    IN  {xy \in (0..(game.width - 1)) \X (0..(game.height - 1)) :
            LET tile == BoardGet(board, xy[1], xy[2])
            IN  /\ is_piece(tile)
                /\ tile.kind = de_pgn_piece(token.piece).val
                /\ tile.white = game.info.active_player
                /\ token.from_x = None \/ de_x(token.from_x.val).val = xy[1]
                /\ token.from_y = None \/ de_y(token.from_y.val).val = xy[2]
                /\ validate_move(game, partial_game,
                       PiecePositionNew(tile, Coords(lt[1], lt[2], xy[1], xy[2])),
                       MoveNew(game, partial_game,
                           Coords(lt[1], lt[2], xy[1], xy[2]),
                           Coords(lt[1], lt[2], de_x(token.to_x).val, de_y(token.to_y).val)))}

\* C25: a non-jump move without its full source square is resolved on the board at
\* (L = from_l, T = from_t): NoBoard is returned only when that board is absent,
\* Ambiguous exactly when not one piece of the named kind and active colour on the
\* given file or rank can move to the destination, and otherwise the move starts
\* from that one piece
C25_SourceResolvedOnItsBoard ==
    /\ (pc = "returned" /\ ret.tag # "Ok" /\ IsPartialNonJump(arg.raw[clock + 1])) =>
          LET token == arg.raw[clock + 1]
              lt == source_board(game, token)
          IN  /\ ret.tag = "Err"
              /\ ret.err = "NoBoard" => lt \notin DOMAIN game.boards
              /\ lt \in DOMAIN game.boards =>
                    (ret.err = "Ambiguous" /\ Cardinality(MoversOf(token, lt)) # 1)
    /\ (pc = "tokens" /\ clock > 0 /\ IsPartialNonJump(arg.raw[clock])) =>
          LET token == arg.raw[clock]
              lt == source_board(game, token)
          IN  /\ lt \in DOMAIN game.boards
              /\ MoversOf(token, lt) = {physical(yielded[Len(yielded)].from)}

\* C27: parse_moves changes nothing of the game but info.active_player, which is
\* false after a "/" token and true after a turn number, whatever the tokens and
\* also when it returns an error
C27_OnlyActivePlayerChanges ==
    /\ game = [arg.game EXCEPT !.info.active_player = game.info.active_player]
    /\ (clock > 0 /\ arg.raw[clock].kind = "slash") => ~game.info.active_player
    /\ (clock > 0 /\ arg.raw[clock].kind = "turn") => game.info.active_player

\* black to move after "/", then a well-formed move, then the return of Ok(())
C27_Witness ==
    /\ pc = "returned"
    /\ ret = Ok(None)
    /\ Len(arg.raw) = 2
    /\ arg.raw[1].kind = "slash"
    /\ arg.raw[2].kind = "nonjump"
    /\ Len(yielded) = 1
    /\ ~game.info.active_player
    /\ arg.game.info.active_player

\* C28: the moves one iterator of generate_moves yields are pairwise distinct,
\* start from the piece's coordinates and end elsewhere
C28_YieldsDistinctMoves ==
    \A i \in DOMAIN yielded :
        /\ yielded[i].mv.from = piece.coords
        /\ yielded[i].mv.to # piece.coords
        /\ \A j \in DOMAIN yielded : i # j => yielded[i].mv # yielded[j].mv

\* the greatest number of steps a walk in one direction can take inside the boards
Reach == Max(Max(MaxL, MaxT), Dim - 1)
\* the place of yield i in the order of the walk: direction first, then distance
WalkedBefore(i, j) ==
    \/ yielded[i].index < yielded[j].index
    \/ yielded[i].index = yielded[j].index /\ yielded[i].distance < yielded[j].distance

\* C29: RangingPieceIter and OneStepPieceIter terminate: every call of next()
\* that yields is further along the walk (direction, distance) than the yields
\* before it, a direction is left after at most Reach steps and never taken up
\* again, so None is returned after at most Len(cardinalities) * Reach yields,
\* with every direction used up; after None every call returns None
C29_IteratorsTerminate ==
    (iter # None /\ iter.tag \in {"Ranging", "OneStep"}) =>
        /\ iter.cardinalities_index <= Len(iter.cardinalities)
        /\ \A i, j \in DOMAIN yielded : i < j => WalkedBefore(i, j)
        /\ \A i \in DOMAIN yielded : yielded[i].distance \in 1..Reach
        /\ Len(yielded) <= Len(iter.cardinalities) * Reach
        /\ iter.tag = "OneStep" => Len(yielded) <= Len(iter.cardinalities)
        /\ pc = "done" =>
              /\ last = None
              /\ iter.cardinalities_index = Len(iter.cardinalities)
              /\ PieceMoveIterNext(game, partial_game, iter) = [res |-> None, it |-> iter]

\* a Rook's walk that has yielded along two directions and has returned None
C29_Witness ==
    /\ iter # None /\ iter.tag = "Ranging" /\ pc = "done" /\ last = None
    /\ piece.piece.kind = "Rook"
    /\ \E i, j \in DOMAIN yielded : yielded[i].index # yielded[j].index
    /\ \E i \in DOMAIN yielded : yielded[i].distance = 2

=============================================================================
